---- MODULE Spec2Model ----
(***************************************************************************)
(* A model of the contextual auto-escaper: the context lattice, the        *)
(* escape-mode selector, the raw-text scanner, the trace analyzer with its *)
(* rewriter, and the pipeline inserter.                                    *)
(*                                                                         *)
(* A context is the record of the six bit-fields that the code packs into  *)
(* one integer; "(c & ~F_ALL) | v" is [c EXCEPT !.f = v].  Text is a       *)
(* sequence of one-character strings.                                      *)
(*                                                                         *)
(* A local variable of the code that holds the result of a call is the     *)
(* parameter of a local operator applied to that call, so that the call    *)
(* appears once in the definition, as it does in the code.                 *)
(***************************************************************************)
EXTENDS Integers, Sequences, FiniteSets, TLC

VARIABLES
    mode,        \* which harness drives the run
    pipeline,    \* the expression wrapped by the Pipeline under test
    pipeline0,   \* that expression before the first call
    to_insert,   \* the required list passed to ensure_pipeline_contains
    calls_made,  \* number of ensure_pipeline_contains calls done so far
    NameToBody,           \* escape's name_to_body: template name -> body
    NameToBodyBefore,     \* NameToBody when escape was last called
    PublicTemplateNames,  \* escape's public_template_names
    StartState,           \* escape's start_state
    outcome,     \* how the last escape call ended: ok, EscapeError, exception
    analysis,    \* the _Analyzer of the last escape call
    runs,        \* number of escape calls done so far
    trace,       \* the synthesized quotes written by an executed trace
    scan_context,  \* the scanner's context after the operations so far
    last_op,       \* the last text chunk or hole the scanner was given
    prev_op,       \* the one before it
    scan_steps,    \* number of chunks and holes so far
    scan_result,   \* what process_raw_text returned for the last chunk
    InsertIndex,   \* the index passed to insert_element_at
    InsertName,    \* the name passed to insert_element_at, None before the call
    UnionArgs,     \* the contexts given to context_union
    UnionResult,   \* what context_union returned for them
    HoleContext,   \* the context given to esc_mode_for_hole
    HoleResult,    \* what esc_mode_for_hole returned for it
    start_context, \* the start_context the File was constructed with
    ctx_,          \* File.ctx_: the context the File has stored
    underlying_,   \* the chunks File has written to its underlying stream
    file_calls,    \* the File.write and File.write_safe calls so far
    file_raised    \* whether the last call on the File raised

pipeVars == <<pipeline, pipeline0, to_insert, calls_made>>
escVars == <<NameToBody, NameToBodyBefore, PublicTemplateNames, StartState,
             outcome, analysis, runs, trace>>
scanVars == <<scan_context, last_op, prev_op, scan_steps, scan_result>>
insVars == <<InsertIndex, InsertName>>
unionVars == <<UnionArgs, UnionResult>>
holeVars == <<HoleContext, HoleResult>>
fileVars == <<start_context, ctx_, underlying_, file_calls, file_raised>>
vars == <<mode, pipeVars, escVars, scanVars, insVars, unionVars, holeVars,
          fileVars>>

-----------------------------------------------------------------------------
(* Generic helpers *)

None == "None"

Max(a, b) == IF a > b THEN a ELSE b

RECURSIVE SeqsUpTo(_, _)
SeqsUpTo(S, n) ==
    IF n = 0 THEN {<<>>}
    ELSE LET shorter == SeqsUpTo(S, n - 1)
         IN  shorter \cup {Append(s, x) : s \in {t \in shorter : Len(t) = n - 1}, x \in S}

Take(s, n) == SubSeq(s, 1, n)
Drop(s, n) == SubSeq(s, n + 1, Len(s))

-----------------------------------------------------------------------------
(* Python's re, as far as the scanner's patterns use it.  A pattern is a   *)
(* tree of records; Match lists the ways a pattern can match at a position *)
(* in the order a backtracking matcher tries them, so the head of the list *)
(* is the match that re returns.  A match state is the position after the  *)
(* match and the span of group 1.                                          *)

LowerSeq == <<"a", "b", "c", "d", "e", "f", "g", "h", "i", "j", "k", "l", "m",
              "n", "o", "p", "q", "r", "s", "t", "u", "v", "w", "x", "y", "z">>
UpperSeq == <<"A", "B", "C", "D", "E", "F", "G", "H", "I", "J", "K", "L", "M",
              "N", "O", "P", "Q", "R", "S", "T", "U", "V", "W", "X", "Y", "Z">>
Lowers == {LowerSeq[i] : i \in DOMAIN LowerSeq}
Uppers == {UpperSeq[i] : i \in DOMAIN UpperSeq}
Digits == {"0", "1", "2", "3", "4", "5", "6", "7", "8", "9"}
Letters == Lowers \cup Uppers
WordChars == Letters \cup Digits \cup {"_"}
\* \s; "VT" stands for the vertical tab, which has no TLA+ string escape.
Spaces == {" ", "\t", "\n", "\r", "\f", "VT"}

\* str.lower() on one character.
ToLower(c) ==
    IF c \in Uppers
    THEN LowerSeq[CHOOSE i \in DOMAIN UpperSeq : UpperSeq[i] = c]
    ELSE c

ToUpper(c) ==
    IF c \in Lowers
    THEN UpperSeq[CHOOSE i \in DOMAIN LowerSeq : LowerSeq[i] = c]
    ELSE c

lower(text) == [i \in DOMAIN text |-> ToLower(text[i])]

\* Pattern constructors.
In(chars) == [op |-> "set", chars |-> chars, neg |-> FALSE]
NotIn(chars) == [op |-> "set", chars |-> chars, neg |-> TRUE]
Lit(chars) == [op |-> "lit", chars |-> chars]
Cat(res) == [op |-> "cat", res |-> res]
Alt(res) == [op |-> "alt", res |-> res]
Star(re) == [op |-> "star", re |-> re]
Plus(re) == [op |-> "cat", res |-> <<re, [op |-> "star", re |-> re]>>]
Opt(re) == [op |-> "alt", res |-> <<re, [op |-> "cat", res |-> <<>>]>>]
Ahead(re) == [op |-> "ahead", re |-> re, neg |-> FALSE]
NotAhead(re) == [op |-> "ahead", re |-> re, neg |-> TRUE]
Group1(re) == [op |-> "group", re |-> re]
Bol == [op |-> "bol"]
Eol == [op |-> "eol"]
WordBoundary == [op |-> "wb"]

MatchState(pos, g1) == [pos |-> pos, g1 |-> g1]

CharMatches(c, chars, ci) ==
    c \in chars \/ (ci /\ (ToLower(c) \in chars \/ ToUpper(c) \in chars))

IsWordAt(text, i) == i >= 1 /\ i <= Len(text) /\ text[i] \in WordChars

RECURSIVE LitMatches(_, _, _, _, _)
LitMatches(chars, k, text, pos, ci) ==
    IF k > Len(chars) THEN TRUE
    ELSE IF pos > Len(text) THEN FALSE
    ELSE IF ~CharMatches(text[pos], {chars[k]}, ci) THEN FALSE
    ELSE LitMatches(chars, k + 1, text, pos + 1, ci)

RECURSIVE Match(_, _, _, _)
RECURSIVE MatchCat(_, _, _, _, _)
RECURSIVE MatchAlt(_, _, _, _, _)
RECURSIVE MatchEach(_, _, _, _, _)
RECURSIVE MatchStar(_, _, _, _, _, _)

\* The ways re matches text at state st, best first; ci is the (?i) flag.
Match(re, text, st, ci) ==
    LET pos == st.pos
    IN  CASE re.op = "set" ->
               IF pos <= Len(text)
                  /\ (CharMatches(text[pos], re.chars, ci) # re.neg)
               THEN <<[st EXCEPT !.pos = pos + 1]>> ELSE <<>>
          [] re.op = "lit" ->
               IF LitMatches(re.chars, 1, text, pos, ci)
               THEN <<[st EXCEPT !.pos = pos + Len(re.chars)]>> ELSE <<>>
          [] re.op = "cat" -> MatchCat(re.res, 1, text, <<st>>, ci)
          [] re.op = "alt" -> MatchAlt(re.res, 1, text, st, ci)
          [] re.op = "star" ->
               MatchStar(re.re, Match(re.re, text, st, ci), 1, text, st, ci)
          [] re.op = "ahead" ->
               IF (Match(re.re, text, st, ci) # <<>>) # re.neg
               THEN <<st>> ELSE <<>>
          [] re.op = "group" ->
               LET Spans(inner) ==
                       IF inner = <<>> THEN <<>>
                       ELSE [k \in 1..Len(inner) |->
                                [inner[k] EXCEPT !.g1 = <<pos, inner[k].pos>>]]
               IN  Spans(Match(re.re, text, st, ci))
          [] re.op = "bol" -> IF pos = 1 THEN <<st>> ELSE <<>>
          [] re.op = "eol" ->
               IF pos = Len(text) + 1
                  \/ (pos = Len(text) /\ text[pos] = "\n")
               THEN <<st>> ELSE <<>>
          [] re.op = "wb" ->
               IF IsWordAt(text, pos - 1) # IsWordAt(text, pos)
               THEN <<st>> ELSE <<>>

\* Continue each state of sts with the patterns res[k..].
MatchCat(res, k, text, sts, ci) ==
    IF k > Len(res) \/ sts = <<>> THEN sts
    ELSE MatchCat(res, k + 1, text, MatchEach(res[k], text, sts, 1, ci), ci)

\* The matches of re from each state of sts, in order.
MatchEach(re, text, sts, j, ci) ==
    IF j > Len(sts) THEN <<>>
    ELSE Match(re, text, sts[j], ci) \o MatchEach(re, text, sts, j + 1, ci)

MatchAlt(res, k, text, st, ci) ==
    IF k > Len(res) THEN <<>>
    ELSE Match(res[k], text, st, ci) \o MatchAlt(res, k + 1, text, st, ci)

\* Greedy repetition: after each non-empty match of re (firsts[j..]) try
\* more repetitions, and last of all stop at st.
MatchStar(re, firsts, j, text, st, ci) ==
    IF j > Len(firsts) THEN <<st>>
    ELSE (IF firsts[j].pos > st.pos
          THEN MatchStar(re, Match(re, text, firsts[j], ci), 1, text,
                         firsts[j], ci)
          ELSE <<>>)
         \o MatchStar(re, firsts, j + 1, text, st, ci)

NoMatch == [found |-> FALSE, start |-> 0, end |-> 0, g1 |-> <<>>]

\* pattern.search(text): the leftmost match, as 0-based start and end
\* offsets and the text of group 1 (<<>> when it took no part), or NoMatch.
RECURSIVE SearchFrom(_, _, _, _)
SearchFrom(re, text, start, ci) ==
    LET First(found) ==
            IF found = <<>> THEN SearchFrom(re, text, start + 1, ci)
            ELSE [found |-> TRUE, start |-> start - 1, end |-> found[1].pos - 1,
                  g1 |-> IF found[1].g1 = <<>> THEN <<>>
                         ELSE SubSeq(text, found[1].g1[1], found[1].g1[2] - 1)]
    IN  IF start > Len(text) + 1 THEN NoMatch
        ELSE First(Match(re, text, MatchState(start, <<>>), ci))

Pattern(re, ci) == [re |-> re, ci |-> ci]
search(pattern, text) == SearchFrom(pattern.re, text, 1, pattern.ci)

-----------------------------------------------------------------------------
(* context.py: the fields of a context *)

Ctx(state, element, attr, delim, js_ctx, url_part) ==
    [state |-> state, element |-> element, attr |-> attr,
     delim |-> delim, js_ctx |-> js_ctx, url_part |-> url_part]

\* A context whose only non-zero bits are the state bits.
StateCtx(state) ==
    Ctx(state, "ELEMENT_NONE", "ATTR_NONE", "DELIM_NONE", "JS_CTX_NONE",
        "URL_PART_NONE")

STATE_TEXT == StateCtx("STATE_TEXT")
STATE_ERROR == StateCtx("STATE_ERROR")

state_of(context) == context.state
element_type_of(context) == context.element
attr_type_of(context) == context.attr
delim_type_of(context) == context.delim
js_ctx_of(context) == context.js_ctx
url_part_of(context) == context.url_part

is_error_context(context) == state_of(context) = "STATE_ERROR"

DELIM_TEXT(delim) ==
    CASE delim = "DELIM_DOUBLE_QUOTE" -> <<"\"">>
      [] delim = "DELIM_SINGLE_QUOTE" -> <<"'">>
      [] delim = "DELIM_SPACE_OR_TAG_END" -> <<>>

-----------------------------------------------------------------------------
(* context_update.py: union and epsilon transitions *)

\* Variant that starts a script attribute without saying what a slash means.
PartialContextWithoutJsCtx(attr_type) ==
    CASE attr_type = "ATTR_NONE" -> StateCtx("STATE_ATTR")
      [] attr_type = "ATTR_SCRIPT" -> StateCtx("STATE_JS")
      [] attr_type = "ATTR_STYLE" -> StateCtx("STATE_CSS")
      [] attr_type = "ATTR_URL" -> StateCtx("STATE_URL")

_PARTIAL_CONTEXT_FOR_ATTR(attr_type) ==
    CASE attr_type = "ATTR_NONE" -> StateCtx("STATE_ATTR")
      [] attr_type = "ATTR_SCRIPT" ->
            [StateCtx("STATE_JS") EXCEPT !.js_ctx = "JS_CTX_REGEX"]
      [] attr_type = "ATTR_STYLE" -> StateCtx("STATE_CSS")
      [] attr_type = "ATTR_URL" -> StateCtx("STATE_URL")

context_after_attr_delimiter(el_type, attr_type, delim) ==
    [_PARTIAL_CONTEXT_FOR_ATTR(attr_type) EXCEPT
        !.element = el_type, !.delim = delim]

\* Variant that leaves STATE_AFTER_NAME as it is.
BeforeDynamicValueAfterNameStays(context) ==
    LET state == state_of(context)
    IN  IF state \in {"STATE_TAG", "STATE_TAG_NAME"}
        THEN [context EXCEPT !.state = "STATE_ATTR_NAME"]
        ELSE IF state = "STATE_BEFORE_VALUE"
        THEN context_after_attr_delimiter(
                 element_type_of(context), attr_type_of(context),
                 "DELIM_SPACE_OR_TAG_END")
        ELSE context

context_before_dynamic_value(context) ==
    LET state == state_of(context)
    IN  IF state \in {"STATE_TAG", "STATE_TAG_NAME"}
        THEN [context EXCEPT !.state = "STATE_ATTR_NAME"]
        ELSE IF state = "STATE_BEFORE_VALUE"
        THEN context_after_attr_delimiter(
                 element_type_of(context), attr_type_of(context),
                 "DELIM_SPACE_OR_TAG_END")
        ELSE IF state = "STATE_AFTER_NAME"
        THEN [context EXCEPT !.state = "STATE_ATTR_NAME", !.attr = "ATTR_NONE"]
        ELSE context

\* Variant that keeps the first context's url_part when only it differs.
RECURSIVE ContextUnionKeepsUrlPart(_, _)
ContextUnionKeepsUrlPart(context0, context1) ==
    IF context0 = context1 THEN context0
    ELSE IF context0 = [context1 EXCEPT !.js_ctx = js_ctx_of(context0)]
    THEN [context0 EXCEPT !.js_ctx = "JS_CTX_UNKNOWN"]
    ELSE IF context0 = [context1 EXCEPT !.url_part = url_part_of(context0)]
    THEN context0
    ELSE LET ncontext0 == context_before_dynamic_value(context0)
             ncontext1 == context_before_dynamic_value(context1)
         IN  IF context0 # ncontext0 \/ context1 # ncontext1
             THEN ContextUnionKeepsUrlPart(ncontext0, ncontext1)
             ELSE STATE_ERROR

\* Variant that nudges both contexts once and does not join the nudged
\* contexts again.
ContextUnionNudgesOnly(context0, context1) ==
    IF context0 = context1 THEN context0
    ELSE IF context0 = [context1 EXCEPT !.js_ctx = js_ctx_of(context0)]
    THEN [context0 EXCEPT !.js_ctx = "JS_CTX_UNKNOWN"]
    ELSE IF context0 = [context1 EXCEPT !.url_part = url_part_of(context0)]
    THEN [context0 EXCEPT !.url_part = "URL_PART_UNKNOWN"]
    ELSE IF context_before_dynamic_value(context0)
                = context_before_dynamic_value(context1)
    THEN context_before_dynamic_value(context0)
    ELSE STATE_ERROR

RECURSIVE context_union(_, _)
context_union(context0, context1) ==
    IF context0 = context1 THEN context0
    ELSE IF context0 = [context1 EXCEPT !.js_ctx = js_ctx_of(context0)]
    THEN [context0 EXCEPT !.js_ctx = "JS_CTX_UNKNOWN"]
    ELSE IF context0 = [context1 EXCEPT !.url_part = url_part_of(context0)]
    THEN [context0 EXCEPT !.url_part = "URL_PART_UNKNOWN"]
    ELSE LET ncontext0 == context_before_dynamic_value(context0)
             ncontext1 == context_before_dynamic_value(context1)
         IN  IF context0 # ncontext0 \/ context1 # ncontext1
             THEN context_union(ncontext0, ncontext1)
             ELSE STATE_ERROR

-----------------------------------------------------------------------------
(* html.py and context_update.py: the scanner's helpers *)

\* str.find: the 0-based offset of the first occurrence of sub, or -1.
RECURSIVE FindFrom(_, _, _)
FindFrom(text, sub, i) ==
    IF i + Len(sub) - 1 > Len(text) THEN -1
    ELSE IF SubSeq(text, i, i + Len(sub) - 1) = sub THEN i - 1
    ELSE FindFrom(text, sub, i + 1)

find(text, sub) == FindFrom(text, sub, 1)

\* str.strip(): drop leading and trailing whitespace.
RECURSIVE strip(_)
strip(text) ==
    IF text = <<>> THEN text
    ELSE IF text[1] \in Spaces THEN strip(Drop(text, 1))
    ELSE IF text[Len(text)] \in Spaces THEN strip(Take(text, Len(text) - 1))
    ELSE text

URL_ATTR_NAMES ==
    {<<"a", "c", "t", "i", "o", "n">>,
     <<"a", "r", "c", "h", "i", "v", "e">>,
     <<"b", "a", "c", "k", "g", "r", "o", "u", "n", "d">>,
     <<"c", "i", "t", "e">>,
     <<"c", "l", "a", "s", "s", "i", "d">>,
     <<"c", "o", "d", "e", "b", "a", "s", "e">>,
     <<"d", "a", "t", "a">>,
     <<"d", "s", "y", "n", "c">>,
     <<"f", "o", "r", "m", "a", "c", "t", "i", "o", "n">>,
     <<"h", "r", "e", "f">>,
     <<"l", "o", "n", "g", "d", "e", "s", "c">>,
     <<"m", "a", "n", "i", "f", "e", "s", "t">>,
     <<"p", "o", "s", "t", "e", "r">>,
     <<"p", "r", "o", "f", "i", "l", "e">>,
     <<"s", "r", "c">>,
     <<"u", "s", "e", "m", "a", "p">>,
     <<"x", "m", "l", "n", "s">>}

_REGEX_PRECEDER_KEYWORDS ==
    {<<"b", "r", "e", "a", "k">>,
     <<"c", "a", "s", "e">>,
     <<"c", "o", "n", "t", "i", "n", "u", "e">>,
     <<"d", "e", "l", "e", "t", "e">>,
     <<"d", "o">>,
     <<"e", "l", "s", "e">>,
     <<"f", "i", "n", "a", "l", "l", "y">>,
     <<"i", "n", "s", "t", "a", "n", "c", "e", "o", "f">>,
     <<"r", "e", "t", "u", "r", "n">>,
     <<"t", "h", "r", "o", "w">>,
     <<"t", "r", "y">>,
     <<"t", "y", "p", "e", "o", "f">>}

\* The number of characters equal to last_char that end js_tokens[1..n].
RECURSIVE NumAdjacent(_, _, _)
NumAdjacent(js_tokens, n, last_char) ==
    IF n >= 1 /\ js_tokens[n] = last_char
    THEN 1 + NumAdjacent(js_tokens, n - 1, last_char)
    ELSE 0

\* re.search(r'[\w$]+$', js_tokens).group(0), or <<>> without a match.
TrailingWord(js_tokens) ==
    LET Word(found) ==
            IF found.found THEN SubSeq(js_tokens, found.start + 1, found.end)
            ELSE <<>>
    IN  Word(search(Pattern(Cat(<<Plus(In(WordChars \cup {"$"})), Eol>>),
                            FALSE), js_tokens))

\* The characters of [#%&(*,:-?\[^{-~].
RegexPrecederPunctuation ==
    {"#", "%", "&", "(", "*", ",", ":", ";", "<", "=", ">", "?", "[", "^",
     "{", "|", "}", "~"}

is_regex_preceder(js_tokens) ==
    LET js_tokens_len == Len(js_tokens)
        last_char == js_tokens[js_tokens_len]
    IN  IF last_char = "+" \/ last_char = "-"
        THEN NumAdjacent(js_tokens, js_tokens_len, last_char) % 2 = 1
        ELSE IF last_char = "."
        THEN IF js_tokens_len = 1 THEN TRUE
             ELSE js_tokens[js_tokens_len - 1] \notin Digits
        ELSE IF last_char = "/" THEN js_tokens_len <= 2
        ELSE IF last_char \in RegexPrecederPunctuation THEN TRUE
        ELSE TrailingWord(js_tokens) \in _REGEX_PRECEDER_KEYWORDS

\* The offset of the first character of raw_text in chars, or -1.
RECURSIVE FirstOf(_, _, _)
FirstOf(raw_text, chars, i) ==
    IF i > Len(raw_text) THEN -1
    ELSE IF raw_text[i] \in chars THEN i - 1
    ELSE FirstOf(raw_text, chars, i + 1)

_end_of_attr_value(raw_text, delim) ==
    IF delim = "DELIM_NONE" THEN -1
    ELSE LET at == IF delim = "DELIM_SPACE_OR_TAG_END"
                   THEN FirstOf(raw_text, Spaces \cup {">"}, 1)
                   ELSE find(raw_text, DELIM_TEXT(delim))
         IN  IF at >= 0 THEN at ELSE Len(raw_text)

-----------------------------------------------------------------------------
(* context_update.py: the transition classes.  A transition is a record of *)
(* its pattern, its class (kind), the constructor argument of that class   *)
(* (arg) and the text normalization that wraps it, if any.                 *)

_Transition(pattern, kind, arg) ==
    [pattern |-> pattern, kind |-> kind, arg |-> arg,
     norm |-> "none", repl |-> <<>>, replace_whole |-> FALSE]

_ToTransition(regex, dest) == _Transition(regex, "_ToTransition", dest)
_ToTagTransition(regex, el_type) == _Transition(regex, "_ToTagTransition", el_type)
_TagDoneTransition(regex) == _Transition(regex, "_TagDoneTransition", None)
_TransitionBackToTag(regex) == _Transition(regex, "_TransitionBackToTag", None)
_TransitionToAttrName(regex) == _Transition(regex, "_TransitionToAttrName", None)
_TransitionToAttrValue(regex, delim) ==
    _Transition(regex, "_TransitionToAttrValue", delim)
_TransitionToState(regex, state) == _Transition(regex, "_TransitionToState", state)
_TransitionToJsString(regex, state) ==
    _Transition(regex, "_TransitionToJsString", state)
_SlashTransition(regex) == _Transition(regex, "_SlashTransition", None)
_JsPuncTransition(regex) == _Transition(regex, "_JsPuncTransition", None)
_TransitionToSelf(regex) == _Transition(regex, "_TransitionToSelf", None)
_URLPartTransition(pattern) == _Transition(pattern, "_URLPartTransition", None)
_EndTagTransition(pattern) == _Transition(pattern, "_EndTagTransition", None)
_RcdataEndTagTransition(regex) == _Transition(regex, "_RcdataEndTagTransition", None)
_CssUriTransition(regex) == _Transition(regex, "_CssUriTransition", None)
_DivPreceder(regex) == _Transition(regex, "_DivPreceder", None)

_NormalizeTransition(transition, repl, replace_whole) ==
    [transition EXCEPT !.norm = "repl", !.repl = repl,
                       !.replace_whole = replace_whole]

_NormalizeJsBlockCommentTransition(transition) ==
    [transition EXCEPT !.norm = "js_block_comment", !.replace_whole = TRUE]

\* "LS" and "PS" stand for U+2028 and U+2029.
NLS == {"\n", "\r", "LS", "PS"}

_TAG_DONE_ELEMENT_TO_PARTIAL_CONTEXT(el_type) ==
    CASE el_type = "ELEMENT_NONE" -> STATE_TEXT
      [] el_type = "ELEMENT_SCRIPT" ->
            [StateCtx("STATE_JS") EXCEPT !.js_ctx = "JS_CTX_REGEX"]
      [] el_type = "ELEMENT_STYLE" -> StateCtx("STATE_CSS")
      [] el_type \in {"ELEMENT_LISTING", "ELEMENT_TEXTAREA", "ELEMENT_TITLE",
                      "ELEMENT_XMP"} -> StateCtx("STATE_RCDATA")

_ELEMENT_TO_TAG_NAME(el_type) ==
    CASE el_type = "ELEMENT_TEXTAREA" -> <<"t", "e", "x", "t", "a", "r", "e", "a">>
      [] el_type = "ELEMENT_TITLE" -> <<"t", "i", "t", "l", "e">>
      [] el_type = "ELEMENT_LISTING" -> <<"l", "i", "s", "t", "i", "n", "g">>
      [] el_type = "ELEMENT_XMP" -> <<"x", "m", "p">>
      [] OTHER -> <<>>

\* _TransitionToAttrName.compute_next_context: the attribute type that the
\* name seen so far selects.
AttrTypeForName(name, prior_attr) ==
    LET colon == find(name, <<":">>)
        attr0 == IF colon >= 0 /\ Take(name, colon) = <<"x", "m", "l", "n", "s">>
                 THEN "ATTR_URL" ELSE prior_attr
        attr_name == IF colon >= 0 THEN Drop(name, colon + 1) ELSE name
    IN  IF Len(attr_name) >= 2 /\ Take(attr_name, 2) = <<"o", "n">>
        THEN "ATTR_SCRIPT"
        ELSE IF attr_name = <<"s", "t", "y", "l", "e">> THEN "ATTR_STYLE"
        ELSE IF attr_name \in URL_ATTR_NAMES THEN "ATTR_URL"
        \* (find('url') & find('uri')) >= 0: the sign bit of x & y is set
        \* only when both are negative.
        ELSE IF find(attr_name, <<"u", "r", "l">>) >= 0
                \/ find(attr_name, <<"u", "r", "i">>) >= 0
        THEN "ATTR_URL"
        ELSE attr0

is_applicable_to(transition, prior, match) ==
    CASE transition.kind = "_EndTagTransition" -> attr_type_of(prior) = "ATTR_NONE"
      [] transition.kind = "_RcdataEndTagTransition" ->
            lower(match.g1) = _ELEMENT_TO_TAG_NAME(element_type_of(prior))
      [] OTHER -> TRUE

\* Variant in which no transition raises.
SlashNeverRaises(transition, prior) == FALSE

\* TRUE iff compute_next_context raises instead of returning a context.
compute_next_context_raises(transition, prior) ==
    /\ transition.kind = "_SlashTransition"
    /\ js_ctx_of(prior) \notin {"JS_CTX_DIV_OP", "JS_CTX_REGEX"}

compute_next_context(transition, prior, match, text) ==
    LET kind == transition.kind
        tag == [StateCtx("STATE_TAG") EXCEPT !.element = element_type_of(prior)]
        js == [prior EXCEPT !.state = "STATE_JS"]
    IN  CASE kind = "_ToTransition" -> transition.arg
          [] kind = "_ToTagTransition" ->
                [StateCtx("STATE_TAG") EXCEPT !.element = transition.arg]
          [] kind = "_TagDoneTransition" ->
                [_TAG_DONE_ELEMENT_TO_PARTIAL_CONTEXT(element_type_of(prior))
                    EXCEPT !.element = element_type_of(prior)]
          [] kind = "_TransitionBackToTag" -> tag
          [] kind = "_TransitionToAttrName" ->
                [StateCtx("STATE_ATTR_NAME") EXCEPT
                    !.element = element_type_of(prior),
                    !.attr = AttrTypeForName(lower(match.g1), attr_type_of(prior))]
          [] kind = "_TransitionToAttrValue" ->
                context_after_attr_delimiter(
                    element_type_of(prior), attr_type_of(prior), transition.arg)
          [] kind = "_TransitionToState" ->
                [prior EXCEPT !.state = transition.arg,
                              !.url_part = "URL_PART_NONE"]
          [] kind = "_TransitionToJsString" ->
                [prior EXCEPT !.state = transition.arg,
                              !.js_ctx = "JS_CTX_NONE",
                              !.url_part = "URL_PART_NONE"]
          [] kind = "_SlashTransition" ->
                IF js_ctx_of(prior) = "JS_CTX_DIV_OP"
                THEN [js EXCEPT !.js_ctx = "JS_CTX_REGEX"]
                ELSE [prior EXCEPT !.state = "STATE_JSREGEXP",
                                   !.js_ctx = "JS_CTX_NONE"]
          [] kind = "_JsPuncTransition" ->
                [prior EXCEPT !.js_ctx =
                    IF is_regex_preceder(SubSeq(text, match.start + 1, match.end))
                    THEN "JS_CTX_REGEX" ELSE "JS_CTX_DIV_OP"]
          [] kind = "_TransitionToSelf" -> prior
          [] kind = "_URLPartTransition" ->
                LET url_part0 == url_part_of(prior)
                    url_part1 ==
                        IF url_part0 = "URL_PART_NONE"
                           /\ strip(Take(text, match.end)) # <<>>
                        THEN "URL_PART_PRE_QUERY" ELSE url_part0
                IN  [prior EXCEPT !.url_part =
                        IF url_part1 # "URL_PART_QUERY_OR_FRAG" /\ match.g1 # <<>>
                        THEN "URL_PART_QUERY_OR_FRAG" ELSE url_part1]
          [] kind = "_EndTagTransition" -> StateCtx("STATE_TAG")
          [] kind = "_RcdataEndTagTransition" -> StateCtx("STATE_TAG")
          [] kind = "_CssUriTransition" ->
                [prior EXCEPT !.url_part = "URL_PART_NONE", !.state =
                    IF match.g1 = <<"\"">> THEN "STATE_CSSDQ_URL"
                    ELSE IF match.g1 = <<"'">> THEN "STATE_CSSSQ_URL"
                    ELSE "STATE_CSS_URL"]
          [] kind = "_DivPreceder" -> [js EXCEPT !.js_ctx = "JS_CTX_DIV_OP"]

\* transition.raw_text(match): the text that replaces text[:match.end()].
raw_text_of(transition, match, text) ==
    LET matched == Take(text, match.end)
    IN  CASE transition.norm = "none" -> matched
          [] transition.norm = "repl" ->
                IF transition.replace_whole THEN transition.repl
                ELSE Take(text, match.start) \o transition.repl
          [] transition.norm = "js_block_comment" ->
                IF \E i \in 1..Len(matched) : matched[i] \in NLS
                THEN <<"\n">> ELSE <<>>

-----------------------------------------------------------------------------
(* context_update.py: the transition table *)

Re(re) == Pattern(re, FALSE)
ReI(re) == Pattern(re, TRUE)

\* $
_TRANSITION_TO_SELF == _TransitionToSelf(Re(Eol))

\* ([?#])|$
_URL_PART_TRANSITION ==
    _URLPartTransition(Re(Alt(<<Group1(In({"?", "#"})), Eol>>)))

\* ([?#]|\\(?:23|3[fF]|[?#]))|$
_CSSURL_PART_TRANSITION ==
    _URLPartTransition(Re(Alt(<<
        Group1(Alt(<<In({"?", "#"}),
                     Cat(<<Lit(<<"\\">>),
                           Alt(<<Lit(<<"2", "3">>),
                                 Cat(<<Lit(<<"3">>), In({"f", "F"})>>),
                                 In({"?", "#"})>>)>>)>>)),
        Eol>>)))

\* (?i)<\/script\b and (?i)<\/style\b
_SCRIPT_TAG_END ==
    _EndTagTransition(ReI(Cat(<<Lit(<<"<", "/", "s", "c", "r", "i", "p", "t">>), WordBoundary>>)))
_STYLE_TAG_END ==
    _EndTagTransition(ReI(Cat(<<Lit(<<"<", "/", "s", "t", "y", "l", "e">>), WordBoundary>>)))

\* (?i)<name(?=[\s>\/]|$)
SpecialTagStart(name) ==
    ReI(Cat(<<Lit(<<"<">> \o name),
              Ahead(Alt(<<In(Spaces \cup {">", "/"}), Eol>>))>>))

AlphaNum == Letters \cup Digits

\* \\(?:\r\n?|[\n\f<quote>]): a CSS line continuation or escaped quote.
CssEscape(quote) ==
    Re(Cat(<<Lit(<<"\\">>),
             Alt(<<Cat(<<Lit(<<"\r">>), Opt(Lit(<<"\n">>))>>),
                   In({"\n", "\f", quote})>>)>>))

\* <(?!/script)
LessThanNotEndScript == Cat(<<Lit(<<"<">>), NotAhead(Lit(<<"/", "s", "c", "r", "i", "p", "t">>))>>)

\* (?i)^(?:[^<quote>\\NLS<]|\\(?:\r\n?|[^\r<]|<(?!/script))|<(?!/script))+
JsStringBody(quote) ==
    ReI(Cat(<<Bol, Plus(Alt(<<
        NotIn({quote, "\\", "<"} \cup NLS),
        Cat(<<Lit(<<"\\">>),
              Alt(<<Cat(<<Lit(<<"\r">>), Opt(Lit(<<"\n">>))>>),
                    NotIn({"\r", "<"}),
                    LessThanNotEndScript>>)>>),
        LessThanNotEndScript>>))>>))

\* ^(?:[^\[\\/<NLS]|\\[^NLS]|\\?<(?!/script)
\*    |\[(?:[^\]\\<NLS]|\\(?:[^NLS]))*|\\?<(?!/script)\])+
JsRegexpBody ==
    Re(Cat(<<Bol, Plus(Alt(<<
        NotIn({"[", "\\", "/", "<"} \cup NLS),
        Cat(<<Lit(<<"\\">>), NotIn(NLS)>>),
        Cat(<<Opt(Lit(<<"\\">>)), LessThanNotEndScript>>),
        Cat(<<Lit(<<"[">>),
              Star(Alt(<<NotIn({"]", "\\", "<"} \cup NLS),
                         Cat(<<Lit(<<"\\">>), NotIn(NLS)>>)>>))>>),
        Cat(<<Opt(Lit(<<"\\">>)), LessThanNotEndScript, Lit(<<"]">>)>>)>>))>>))

\* The CSS and JS rows of the transition table.
_TRANSITIONS_CSS_JS(state) ==
    CASE state = "STATE_CSS" -> <<
            \* \/\*
            _NormalizeTransition(
                _TransitionToState(Re(Lit(<<"/", "*">>)), "STATE_CSSBLOCK_CMT"),
                <<" ">>, FALSE),
            \* \/\/
            _NormalizeTransition(
                _TransitionToState(Re(Lit(<<"/", "/">>)), "STATE_CSSLINE_CMT"),
                <<>>, FALSE),
            _TransitionToState(Re(Lit(<<"\"">>)), "STATE_CSSDQ_STR"),
            _TransitionToState(Re(Lit(<<"'">>)), "STATE_CSSSQ_STR"),
            \* (?i)\burl\s*\(\s*([\"\']?)
            _CssUriTransition(ReI(Cat(<<
                WordBoundary, Lit(<<"u", "r", "l">>), Star(In(Spaces)),
                Lit(<<"(">>), Star(In(Spaces)),
                Group1(Opt(In({"\"", "'"})))>>))),
            _STYLE_TAG_END,
            _TRANSITION_TO_SELF >>
      [] state = "STATE_CSSBLOCK_CMT" -> <<
            \* \*\/
            _NormalizeTransition(
                _TransitionToState(Re(Lit(<<"*", "/">>)), "STATE_CSS"), <<>>, TRUE),
            _NormalizeTransition(_STYLE_TAG_END, <<"<", "/", "s", "t", "y", "l", "e">>, TRUE),
            _NormalizeTransition(_TRANSITION_TO_SELF, <<>>, TRUE) >>
      [] state = "STATE_CSSLINE_CMT" -> <<
            \* [\n\f\r]
            _NormalizeTransition(
                _TransitionToState(Re(In({"\n", "\f", "\r"})), "STATE_CSS"),
                <<"\n">>, TRUE),
            _NormalizeTransition(_STYLE_TAG_END, <<"<", "/", "s", "t", "y", "l", "e">>, TRUE),
            _NormalizeTransition(_TRANSITION_TO_SELF, <<>>, TRUE) >>
      [] state = "STATE_CSSDQ_STR" -> <<
            _TransitionToState(Re(Lit(<<"\"">>)), "STATE_CSS"),
            _TransitionToSelf(CssEscape("\"")),
            _CSSURL_PART_TRANSITION,
            _ToTransition(Re(In({"\n", "\r", "\f"})), STATE_ERROR),
            _STYLE_TAG_END,
            _TRANSITION_TO_SELF >>
      [] state = "STATE_CSSSQ_STR" -> <<
            _TransitionToState(Re(Lit(<<"'">>)), "STATE_CSS"),
            _TransitionToSelf(CssEscape("'")),
            _CSSURL_PART_TRANSITION,
            _ToTransition(Re(In({"\n", "\r", "\f"})), STATE_ERROR),
            _STYLE_TAG_END >>
      [] state = "STATE_CSS_URL" -> <<
            \* [\\)\s]
            _TransitionToState(Re(In(Spaces \cup {"\\", ")"})), "STATE_CSS"),
            _CSSURL_PART_TRANSITION,
            \* [\"\']
            _TransitionToState(Re(In({"\"", "'"})), "STATE_ERROR"),
            _STYLE_TAG_END >>
      [] state = "STATE_CSSSQ_URL" -> <<
            _TransitionToState(Re(Lit(<<"'">>)), "STATE_CSS"),
            _CSSURL_PART_TRANSITION,
            _TransitionToSelf(CssEscape("'")),
            _ToTransition(Re(In({"\n", "\r", "\f"})), STATE_ERROR),
            _STYLE_TAG_END >>
      [] state = "STATE_CSSDQ_URL" -> <<
            _TransitionToState(Re(Lit(<<"\"">>)), "STATE_CSS"),
            _CSSURL_PART_TRANSITION,
            _TransitionToSelf(CssEscape("\"")),
            _ToTransition(Re(In({"\n", "\r", "\f"})), STATE_ERROR),
            _STYLE_TAG_END >>
      [] state = "STATE_JS" -> <<
            \* /[*]
            _NormalizeTransition(
                _TransitionToState(Re(Lit(<<"/", "*">>)), "STATE_JSBLOCK_CMT"),
                <<" ">>, FALSE),
            \* //
            _NormalizeTransition(
                _TransitionToState(Re(Lit(<<"/", "/">>)), "STATE_JSLINE_CMT"),
                <<>>, FALSE),
            _TransitionToJsString(Re(Lit(<<"\"">>)), "STATE_JSDQ_STR"),
            _TransitionToJsString(Re(Lit(<<"'">>)), "STATE_JSSQ_STR"),
            _SlashTransition(Re(Lit(<<"/">>))),
            \* (?i)(?:[^<\/\"\'\s\\]|<(?!\/script))+
            _JsPuncTransition(ReI(Plus(Alt(<<
                NotIn(Spaces \cup {"<", "/", "\"", "'", "\\"}),
                LessThanNotEndScript>>)))),
            \* \s+
            _TransitionToSelf(Re(Plus(In(Spaces)))),
            _SCRIPT_TAG_END >>
      [] state = "STATE_JSBLOCK_CMT" -> <<
            \* [*]/
            _NormalizeJsBlockCommentTransition(
                _TransitionToState(Re(Lit(<<"*", "/">>)), "STATE_JS")),
            _NormalizeTransition(_SCRIPT_TAG_END, <<"<", "/", "s", "c", "r", "i", "p", "t">>, TRUE),
            _NormalizeJsBlockCommentTransition(_TRANSITION_TO_SELF) >>
      [] state = "STATE_JSLINE_CMT" -> <<
            \* [NLS]
            _NormalizeTransition(
                _TransitionToState(Re(In(NLS)), "STATE_JS"), <<"\n">>, TRUE),
            _NormalizeTransition(_SCRIPT_TAG_END, <<"<", "/", "s", "c", "r", "i", "p", "t">>, TRUE),
            _NormalizeTransition(_TRANSITION_TO_SELF, <<>>, TRUE) >>
      [] state = "STATE_JSDQ_STR" -> <<
            _DivPreceder(Re(Lit(<<"\"">>))),
            _SCRIPT_TAG_END,
            _TransitionToSelf(JsStringBody("\"")) >>
      [] state = "STATE_JSSQ_STR" -> <<
            _DivPreceder(Re(Lit(<<"'">>))),
            _SCRIPT_TAG_END,
            _TransitionToSelf(JsStringBody("'")) >>
      [] state = "STATE_JSREGEXP" -> <<
            _DivPreceder(Re(Lit(<<"/">>))),
            _SCRIPT_TAG_END,
            _TransitionToSelf(JsRegexpBody) >>

\* The HTML rows, and the table as a whole.
_TRANSITIONS(state) ==
    CASE state = "STATE_TEXT" -> <<
            \* ^[^<]+
            _TransitionToSelf(Re(Cat(<<Bol, Plus(NotIn({"<"}))>>))),
            \* <!--
            _NormalizeTransition(
                _ToTransition(Re(Lit(<<"<", "!", "-", "-">>)), StateCtx("STATE_HTMLCMT")),
                <<>>, FALSE),
            _ToTagTransition(SpecialTagStart(<<"s", "c", "r", "i", "p", "t">>), "ELEMENT_SCRIPT"),
            _ToTagTransition(SpecialTagStart(<<"s", "t", "y", "l", "e">>), "ELEMENT_STYLE"),
            _ToTagTransition(SpecialTagStart(<<"t", "e", "x", "t", "a", "r", "e", "a">>), "ELEMENT_TEXTAREA"),
            _ToTagTransition(SpecialTagStart(<<"t", "i", "t", "l", "e">>), "ELEMENT_TITLE"),
            _ToTagTransition(SpecialTagStart(<<"x", "m", "p">>), "ELEMENT_XMP"),
            \* (?i)<(?!/?[A-Z]|!DOCTYPE)
            _NormalizeTransition(
                _TransitionToSelf(ReI(Cat(<<
                    Lit(<<"<">>),
                    NotAhead(Alt(<<Cat(<<Opt(Lit(<<"/">>)), In(Uppers)>>),
                                   Lit(<<"!", "D", "O", "C", "T", "Y", "P", "E">>)>>))>>))),
                <<"&", "l", "t", ";">>, FALSE),
            \* <
            _ToTransition(Re(Lit(<<"<">>)), StateCtx("STATE_HTML_BEFORE_TAG_NAME")) >>
      [] state = "STATE_RCDATA" -> <<
            \* </(\w+)\b
            _RcdataEndTagTransition(Re(Cat(<<
                Lit(<<"<", "/">>), Group1(Plus(In(WordChars))), WordBoundary>>))),
            _NormalizeTransition(_TransitionToSelf(Re(Lit(<<"<">>))),
                                 <<"&", "l", "t", ";">>, FALSE),
            _TRANSITION_TO_SELF >>
      [] state = "STATE_HTML_BEFORE_TAG_NAME" -> <<
            \* ^[A-Za-z]+
            _ToTransition(Re(Cat(<<Bol, Plus(In(Letters))>>)),
                          StateCtx("STATE_TAG_NAME")),
            \* ^(?=[^A-Za-z])
            _ToTransition(Re(Cat(<<Bol, Ahead(NotIn(Letters))>>)), STATE_TEXT) >>
      [] state = "STATE_TAG_NAME" -> <<
            \* ^[A-Za-z0-9:-]*(?:[A-Za-z0-9]|$)
            _TransitionToSelf(Re(Cat(<<
                Bol, Star(In(AlphaNum \cup {":", "-"})),
                Alt(<<In(AlphaNum), Eol>>)>>))),
            \* ^(?=[\/\s>])
            _ToTagTransition(Re(Cat(<<Bol, Ahead(In(Spaces \cup {"/", ">"}))>>)),
                             "ELEMENT_NONE") >>
      [] state = "STATE_TAG" -> <<
            \* ^\s*([A-Za-z][\w:-]*)
            _TransitionToAttrName(Re(Cat(<<
                Bol, Star(In(Spaces)),
                Group1(Cat(<<In(Letters), Star(In(WordChars \cup {":", "-"}))>>))>>))),
            \* ^\s*\/?>
            _TagDoneTransition(Re(Cat(<<
                Bol, Star(In(Spaces)), Opt(Lit(<<"/">>)), Lit(<<">">>)>>))),
            \* ^\s+$
            _TransitionToSelf(Re(Cat(<<Bol, Plus(In(Spaces)), Eol>>))) >>
      [] state = "STATE_ATTR_NAME" -> <<
            \* [A-Za-z0-9-]+
            _TransitionToSelf(Re(Plus(In(AlphaNum \cup {"-"})))),
            \* ^
            _TransitionToState(Re(Bol), "STATE_AFTER_NAME") >>
      [] state = "STATE_AFTER_NAME" -> <<
            \* ^\s*=
            _TransitionToState(Re(Cat(<<Bol, Star(In(Spaces)), Lit(<<"=">>)>>)),
                               "STATE_BEFORE_VALUE"),
            \* ^\s+
            _TransitionToSelf(Re(Cat(<<Bol, Plus(In(Spaces))>>))),
            \* ^
            _TransitionBackToTag(Re(Bol)) >>
      [] state = "STATE_BEFORE_VALUE" -> <<
            \* ^\s*["]
            _TransitionToAttrValue(
                Re(Cat(<<Bol, Star(In(Spaces)), Lit(<<"\"">>)>>)),
                "DELIM_DOUBLE_QUOTE"),
            \* ^\s*\'
            _TransitionToAttrValue(
                Re(Cat(<<Bol, Star(In(Spaces)), Lit(<<"'">>)>>)),
                "DELIM_SINGLE_QUOTE"),
            \* ^(?=[^\"\'\s>])
            _TransitionToAttrValue(
                Re(Cat(<<Bol, Ahead(NotIn(Spaces \cup {"\"", "'", ">"}))>>)),
                "DELIM_SPACE_OR_TAG_END"),
            \* ^(?=>|\s+[A-Za-z][A-Za-z0-9-]*\s*=)
            _TransitionBackToTag(Re(Cat(<<Bol, Ahead(Alt(<<
                Lit(<<">">>),
                Cat(<<Plus(In(Spaces)), In(Letters),
                      Star(In(AlphaNum \cup {"-"})), Star(In(Spaces)),
                      Lit(<<"=">>)>>)>>))>>))),
            \* ^\s+
            _TransitionToSelf(Re(Cat(<<Bol, Plus(In(Spaces))>>))) >>
      [] state = "STATE_HTMLCMT" -> <<
            \* -->
            _NormalizeTransition(
                _ToTransition(Re(Lit(<<"-", "-", ">">>)), STATE_TEXT), <<>>, TRUE),
            _NormalizeTransition(_TRANSITION_TO_SELF, <<>>, TRUE) >>
      [] state = "STATE_ATTR" -> << _TRANSITION_TO_SELF >>
      [] state = "STATE_URL" -> << _URL_PART_TRANSITION >>
      [] OTHER -> _TRANSITIONS_CSS_JS(state)

-----------------------------------------------------------------------------
(* html.py and escaping.py: decoding and re-encoding of attribute values *)

HexDigits == Digits \cup {"a", "b", "c", "d", "e", "f", "A", "B", "C", "D", "E", "F"}

DigitValue(c) ==
    CASE c \in Digits -> CHOOSE n \in 0..9 : ToString(n) = c
      [] ToLower(c) = "a" -> 10
      [] ToLower(c) = "b" -> 11
      [] ToLower(c) = "c" -> 12
      [] ToLower(c) = "d" -> 13
      [] ToLower(c) = "e" -> 14
      [] ToLower(c) = "f" -> 15

\* int(digits, base)
RECURSIVE int(_, _)
int(digits, base) ==
    IF digits = <<>> THEN 0
    ELSE int(Take(digits, Len(digits) - 1), base) * base
         + DigitValue(digits[Len(digits)])

\* _unichr for the code points of HTML's special characters; any other
\* code point is the character named by its number.  "NUL" is U+0000.
_unichr(codepoint) ==
    CASE codepoint = 0 -> "NUL"
      [] codepoint = 32 -> " "
      [] codepoint = 34 -> "\""
      [] codepoint = 38 -> "&"
      [] codepoint = 39 -> "'"
      [] codepoint = 60 -> "<"
      [] codepoint = 62 -> ">"
      [] OTHER -> "U+" \o ToString(codepoint)

\* entities.inc, restricted to the entities of HTML's special characters.
_ENTITY_NAME_TO_EXPANSION(name) ==
    CASE name = <<"q", "u", "o", "t", ";">> -> <<"\"">>
      [] name = <<"a", "m", "p", ";">> -> <<"&">>
      [] name = <<"a", "p", "o", "s", ";">> -> <<"'">>
      [] name = <<"l", "t", ";">> -> <<"<">>
      [] name = <<"g", "t", ";">> -> <<">">>
      [] name = <<"q", "u", "o", "t">> -> <<"\"">>
      [] name = <<"a", "m", "p">> -> <<"&">>
      [] name = <<"l", "t">> -> <<"<">>
      [] name = <<"g", "t">> -> <<">">>
      [] OTHER -> <<>>

\* &#[xX]([0-9A-Fa-f]+);   &#([0-9]+);   &([a-zA-Z0-9]+;?)
HexEntity ==
    Cat(<<Lit(<<"&", "#">>), In({"x", "X"}), Group1(Plus(In(HexDigits))), Lit(<<";">>)>>)
DecimalEntity ==
    Cat(<<Lit(<<"&", "#">>), Group1(Plus(In(Digits))), Lit(<<";">>)>>)
NamedEntity ==
    Cat(<<Lit(<<"&">>), Group1(Cat(<<Plus(In(AlphaNum)), Opt(Lit(<<";">>))>>))>>)

\* re.sub of the entity pattern with _decode_html_entity, from offset i on.
RECURSIVE DecodeEntitiesFrom(_, _)
DecodeEntitiesFrom(html, i) ==
    LET at == MatchState(i, <<>>)
        Group(m) == SubSeq(html, m.g1[1], m.g1[2] - 1)
        Numeric(m, base) ==
            <<_unichr(int(Group(m), base))>> \o DecodeEntitiesFrom(html, m.pos)
        Expanded(m, expansion) ==
            (IF expansion # <<>> THEN expansion
             ELSE SubSeq(html, i, m.pos - 1))
            \o DecodeEntitiesFrom(html, m.pos)
        Named(named) ==
            IF named # <<>>
            THEN Expanded(named[1], _ENTITY_NAME_TO_EXPANSION(Group(named[1])))
            ELSE <<html[i]>> \o DecodeEntitiesFrom(html, i + 1)
        Decimal(dec) ==
            IF dec # <<>> THEN Numeric(dec[1], 10)
            ELSE Named(Match(NamedEntity, html, at, FALSE))
        Hex(hex) ==
            IF hex # <<>> THEN Numeric(hex[1], 16)
            ELSE Decimal(Match(DecimalEntity, html, at, FALSE))
    IN  IF i > Len(html) THEN <<>>
        ELSE Hex(Match(HexEntity, html, at, FALSE))

unescape_html(html) ==
    IF find(html, <<"&">>) < 0 THEN html ELSE DecodeEntitiesFrom(html, 1)

_replacer_for_html(group) ==
    CASE group = "&" -> <<"&", "a", "m", "p", ";">>
      [] group = "<" -> <<"&", "l", "t", ";">>
      [] group = ">" -> <<"&", "g", "t", ";">>
      [] group = "\"" -> <<"&", "#", "3", "4", ";">>
      [] group = "'" -> <<"&", "#", "3", "9", ";">>
      [] group = "NUL" -> <<"&", "#", "0", ";">>

\* matcher.sub(_replacer_for_html, value) for a matcher that is one
\* character class.
RECURSIVE EscapeChars(_, _)
EscapeChars(value, chars) ==
    IF value = <<>> THEN <<>>
    ELSE (IF value[1] \in chars THEN _replacer_for_html(value[1])
          ELSE <<value[1]>>)
         \o EscapeChars(Drop(value, 1), chars)

escape_html_sq_only(value) == EscapeChars(value, {"NUL", "&", "'", "<", ">"})
escape_html_dq_only(value) == EscapeChars(value, {"NUL", "&", "\"", "<", ">"})

-----------------------------------------------------------------------------
(* context_update.py: _process_next_token and process_raw_text *)

\* The loop over _TRANSITIONS[state]: the applicable transition whose match
\* starts earliest, the first of them on a tie.  best is <<>> or
\* <<transition, match>>.
RECURSIVE EarliestTransition(_, _, _, _, _)
EarliestTransition(transitions, k, text, context, best) ==
    LET earliest_start == IF best = <<>> THEN Len(text) + 1
                          ELSE best[2].start
        Try(transition, match) ==
            IF match.found /\ match.start < earliest_start
               /\ is_applicable_to(transition, context, match)
            THEN <<transition, match>>
            ELSE best
    IN  IF k > Len(transitions) THEN best
        ELSE EarliestTransition(
                 transitions, k + 1, text, context,
                 Try(transitions[k], search(transitions[k].pattern, text)))

\* Returns num_consumed, the context after, the replacement text, and
\* whether the call raised instead of returning.
_process_next_token(text, context) ==
    LET Taken(transition, match, next_context) ==
            [num_consumed |-> match.end,
             context |-> next_context,
             text |-> raw_text_of(transition, match, text),
             raised |-> match.end = 0
                 /\ state_of(next_context) = state_of(context)]
        Take1(transition, match) ==
            IF compute_next_context_raises(transition, context)
            THEN [num_consumed |-> match.end, context |-> context,
                  text |-> text, raised |-> TRUE]
            ELSE Taken(transition, match,
                       compute_next_context(transition, context, match, text))
        Earliest(earliest) ==
            IF earliest = <<>>
            THEN [num_consumed |-> Len(text), context |-> STATE_ERROR,
                  text |-> text, raised |-> FALSE]
            ELSE Take1(earliest[1], earliest[2])
    IN  IF is_error_context(context)
        THEN [num_consumed |-> Len(text), context |-> context, text |-> text,
              raised |-> FALSE]
        ELSE Earliest(EarliestTransition(_TRANSITIONS(state_of(context)), 1,
                                         text, context, <<>>))

\* "while attr_value_tail": scan the decoded attribute value.
RECURSIVE AttrValueTail(_, _, _, _)
AttrValueTail(attr_value_tail, context, written, delim_type) ==
    LET escaped(text) == IF delim_type = "DELIM_SINGLE_QUOTE"
                         THEN escape_html_sq_only(text)
                         ELSE escape_html_dq_only(text)
        Next1(token) ==
            IF token.raised
            THEN [context |-> context, written |-> written, raised |-> TRUE]
            ELSE AttrValueTail(Drop(attr_value_tail, token.num_consumed),
                               token.context, written \o escaped(token.text),
                               delim_type)
    IN  IF attr_value_tail = <<>>
        THEN [context |-> context, written |-> written, raised |-> FALSE]
        ELSE Next1(_process_next_token(attr_value_tail, context))

\* None where process_raw_text returns a text, and where it returns a
\* context.
NoText == <<None>>
NoContext == StateCtx(None)

ProcessResult(context, normalized, error_ctx, error_text, raised, quotes) ==
    [context |-> context, normalized |-> normalized, error_ctx |-> error_ctx,
     error_text |-> error_text, raised |-> raised, quotes |-> quotes,
     overwritten |-> FALSE]

\* "while raw_text".  quotes lists the double quotes the scanner itself
\* wrote around unquoted attribute values, "open" or "close", in order;
\* overwritten tells that "context = STATE_TAG | element_type_of(context)"
\* was assigned when context was an error context.
RECURSIVE ProcessLoop(_, _, _, _)
ProcessLoop(raw_text, context, normalized, quotes) ==
    LET delim_type == delim_type_of(context)
        Opened(token, opens) ==
            IF token.raised
            THEN ProcessResult(context, NoText, NoContext, NoText, TRUE, quotes)
            ELSE IF is_error_context(token.context)
            THEN ProcessResult(token.context, NoText, context, raw_text,
                               FALSE, quotes)
            ELSE ProcessLoop(
                     Drop(raw_text, token.num_consumed), token.context,
                     normalized \o token.text
                         \o (IF opens THEN <<"\"">> ELSE <<>>),
                     quotes \o (IF opens THEN <<"open">> ELSE <<>>))
        Outside(token) ==
            Opened(token,
                   delim_type_of(token.context) = "DELIM_SPACE_OR_TAG_END")
        closing(ends) == IF ~ends THEN <<>>
                         ELSE IF delim_type = "DELIM_SINGLE_QUOTE"
                         THEN <<"'">> ELSE <<"\"">>
        Rest(over, rest) == [rest EXCEPT !.overwritten = @ \/ over]
        Ended(attr_value_end, ends, tail, context_after) ==
            IF tail.raised
            THEN ProcessResult(context, NoText, NoContext, NoText, TRUE, quotes)
            ELSE IF is_error_context(context_after)
            THEN ProcessResult(context_after, NoText, context, raw_text,
                               FALSE, quotes)
            ELSE Rest(ends /\ is_error_context(tail.context),
                      ProcessLoop(
                          IF ends
                          THEN Drop(raw_text,
                                    attr_value_end + Len(DELIM_TEXT(delim_type)))
                          ELSE <<>>,
                          context_after,
                          normalized \o tail.written \o closing(ends),
                          quotes \o (IF ends /\ delim_type = "DELIM_SPACE_OR_TAG_END"
                                     THEN <<"close">> ELSE <<>>)))
        Inside1(attr_value_end, ends, tail) ==
            Ended(attr_value_end, ends, tail,
                  IF ends
                  THEN [StateCtx("STATE_TAG") EXCEPT
                           !.element = element_type_of(tail.context)]
                  ELSE tail.context)
        Inside(attr_value_end) ==
            Inside1(attr_value_end, attr_value_end < Len(raw_text),
                    AttrValueTail(
                        unescape_html(Take(raw_text, attr_value_end)),
                        context, <<>>, delim_type))
        Split(attr_value_end) ==
            IF attr_value_end = -1
            THEN Outside(_process_next_token(raw_text, context))
            ELSE Inside(attr_value_end)
    IN  IF raw_text = <<>>
        THEN ProcessResult(context, normalized, NoContext, NoText, FALSE, quotes)
        ELSE Split(_end_of_attr_value(raw_text, delim_type))

process_raw_text(raw_text, context) == ProcessLoop(raw_text, context, <<>>, <<>>)

-----------------------------------------------------------------------------
(* escaping.py: escape modes and the escape-mode selector *)

\* Variant that takes the opening quote for redundant after the attribute
\* escaper.
RedundantWithOpenQuote ==
    { <<"ESC_MODE_ELIDE", "ESC_MODE_ESCAPE_HTML_ATTRIBUTE">>,
      <<"ESC_MODE_ELIDE", "ESC_MODE_ESCAPE_HTML">>,
      <<"ESC_MODE_ESCAPE_CSS_STRING", "ESC_MODE_ESCAPE_HTML_ATTRIBUTE">>,
      <<"ESC_MODE_ESCAPE_JS_REGEX", "ESC_MODE_ESCAPE_HTML_ATTRIBUTE">>,
      <<"ESC_MODE_ESCAPE_JS_STRING", "ESC_MODE_ESCAPE_HTML_ATTRIBUTE">>,
      <<"ESC_MODE_ESCAPE_URL", "ESC_MODE_NORMALIZE_URL">>,
      <<"ESC_MODE_ESCAPE_HTML_ATTRIBUTE", "ESC_MODE_OPEN_QUOTE">> }

REDUNDANT_ESC_MODES ==
    { <<"ESC_MODE_ELIDE", "ESC_MODE_ESCAPE_HTML_ATTRIBUTE">>,
      <<"ESC_MODE_ELIDE", "ESC_MODE_ESCAPE_HTML">>,
      <<"ESC_MODE_ESCAPE_CSS_STRING", "ESC_MODE_ESCAPE_HTML_ATTRIBUTE">>,
      <<"ESC_MODE_ESCAPE_JS_REGEX", "ESC_MODE_ESCAPE_HTML_ATTRIBUTE">>,
      <<"ESC_MODE_ESCAPE_JS_STRING", "ESC_MODE_ESCAPE_HTML_ATTRIBUTE">>,
      <<"ESC_MODE_ESCAPE_URL", "ESC_MODE_NORMALIZE_URL">> }

\* Variant of the table that escapes values in JavaScript comments.
EscModeEscapesJsComments(state) ==
    CASE state = "STATE_TEXT" -> "ESC_MODE_ESCAPE_HTML"
      [] state = "STATE_RCDATA" -> "ESC_MODE_ESCAPE_HTML_RCDATA"
      [] state = "STATE_HTML_BEFORE_TAG_NAME" -> "ESC_MODE_FILTER_HTML_ELEMENT_NAME"
      [] state = "STATE_TAG_NAME" -> "ESC_MODE_FILTER_HTML_ELEMENT_NAME"
      [] state = "STATE_TAG" -> "ESC_MODE_FILTER_HTML_ATTRIBUTE"
      [] state = "STATE_ATTR_NAME" -> "ESC_MODE_FILTER_HTML_ATTRIBUTE"
      [] state = "STATE_HTMLCMT" -> "ESC_MODE_ELIDE"
      [] state = "STATE_ATTR" -> "ESC_MODE_ESCAPE_HTML_ATTRIBUTE"
      [] state = "STATE_CSS" -> "ESC_MODE_FILTER_CSS_VALUE"
      [] state = "STATE_CSSLINE_CMT" -> "ESC_MODE_ELIDE"
      [] state = "STATE_CSSBLOCK_CMT" -> "ESC_MODE_ELIDE"
      [] state = "STATE_CSSDQ_STR" -> "ESC_MODE_ESCAPE_CSS_STRING"
      [] state = "STATE_CSSSQ_STR" -> "ESC_MODE_ESCAPE_CSS_STRING"
      [] state = "STATE_CSS_URL" -> "ESC_MODE_NORMALIZE_URL"
      [] state = "STATE_CSSDQ_URL" -> "ESC_MODE_NORMALIZE_URL"
      [] state = "STATE_CSSSQ_URL" -> "ESC_MODE_NORMALIZE_URL"
      [] state = "STATE_JS" -> "ESC_MODE_ESCAPE_JS_VALUE"
      [] state = "STATE_JSLINE_CMT" -> "ESC_MODE_ESCAPE_JS_VALUE"
      [] state = "STATE_JSBLOCK_CMT" -> "ESC_MODE_ESCAPE_JS_VALUE"
      [] state = "STATE_JSDQ_STR" -> "ESC_MODE_ESCAPE_JS_STRING"
      [] state = "STATE_JSSQ_STR" -> "ESC_MODE_ESCAPE_JS_STRING"
      [] state = "STATE_JSREGEXP" -> "ESC_MODE_ESCAPE_JS_REGEX"
      [] state = "STATE_URL" -> "ESC_MODE_ESCAPE_HTML_ATTRIBUTE"
      [] OTHER -> None

ESC_MODE_FOR_STATE(state) ==
    CASE state = "STATE_TEXT" -> "ESC_MODE_ESCAPE_HTML"
      [] state = "STATE_RCDATA" -> "ESC_MODE_ESCAPE_HTML_RCDATA"
      [] state = "STATE_HTML_BEFORE_TAG_NAME" -> "ESC_MODE_FILTER_HTML_ELEMENT_NAME"
      [] state = "STATE_TAG_NAME" -> "ESC_MODE_FILTER_HTML_ELEMENT_NAME"
      [] state = "STATE_TAG" -> "ESC_MODE_FILTER_HTML_ATTRIBUTE"
      [] state = "STATE_ATTR_NAME" -> "ESC_MODE_FILTER_HTML_ATTRIBUTE"
      [] state = "STATE_HTMLCMT" -> "ESC_MODE_ELIDE"
      [] state = "STATE_ATTR" -> "ESC_MODE_ESCAPE_HTML_ATTRIBUTE"
      [] state = "STATE_CSS" -> "ESC_MODE_FILTER_CSS_VALUE"
      [] state = "STATE_CSSLINE_CMT" -> "ESC_MODE_ELIDE"
      [] state = "STATE_CSSBLOCK_CMT" -> "ESC_MODE_ELIDE"
      [] state = "STATE_CSSDQ_STR" -> "ESC_MODE_ESCAPE_CSS_STRING"
      [] state = "STATE_CSSSQ_STR" -> "ESC_MODE_ESCAPE_CSS_STRING"
      [] state = "STATE_CSS_URL" -> "ESC_MODE_NORMALIZE_URL"
      [] state = "STATE_CSSDQ_URL" -> "ESC_MODE_NORMALIZE_URL"
      [] state = "STATE_CSSSQ_URL" -> "ESC_MODE_NORMALIZE_URL"
      [] state = "STATE_JS" -> "ESC_MODE_ESCAPE_JS_VALUE"
      [] state = "STATE_JSLINE_CMT" -> "ESC_MODE_ELIDE"
      [] state = "STATE_JSBLOCK_CMT" -> "ESC_MODE_ELIDE"
      [] state = "STATE_JSDQ_STR" -> "ESC_MODE_ESCAPE_JS_STRING"
      [] state = "STATE_JSSQ_STR" -> "ESC_MODE_ESCAPE_JS_STRING"
      [] state = "STATE_JSREGEXP" -> "ESC_MODE_ESCAPE_JS_REGEX"
      [] state = "STATE_URL" -> "ESC_MODE_ESCAPE_HTML_ATTRIBUTE"
      [] OTHER -> None

\* Variant of the loop that drops the first mode of a redundant pair.
RECURSIVE CompressDropsFirst(_, _, _)
CompressDropsFirst(esc_modes, last, i) ==
    IF i > Len(esc_modes) THEN esc_modes
    ELSE IF <<esc_modes[i - 1], esc_modes[i]>> \in REDUNDANT_ESC_MODES
    THEN CompressDropsFirst(Take(esc_modes, i - 2) \o Drop(esc_modes, i - 1),
                            esc_modes[i], i)
    ELSE CompressDropsFirst(esc_modes, esc_modes[i], i + 1)

\* The loop at the end of esc_mode_for_hole: drop a mode that is redundant
\* after the mode kept to its left.
RECURSIVE CompressEscModes(_, _, _)
CompressEscModes(esc_modes, last, i) ==
    IF i > Len(esc_modes) THEN esc_modes
    ELSE IF <<last, esc_modes[i]>> \in REDUNDANT_ESC_MODES
    THEN CompressEscModes(Take(esc_modes, i - 1) \o Drop(esc_modes, i), last, i)
    ELSE CompressEscModes(esc_modes, esc_modes[i], i + 1)

UrlStates == {"STATE_URL", "STATE_CSS_URL", "STATE_CSSDQ_URL", "STATE_CSSSQ_URL"}
CssStrStates == {"STATE_CSSDQ_STR", "STATE_CSSSQ_STR"}

\* Variant of the URL-part branch that keeps the state's own mode.
HoleUrlPartUnfiltered(ctx0) ==
    [ctx |-> ctx0, esc_modes |-> <<ESC_MODE_FOR_STATE(state_of(ctx0))>>,
     problem |-> None]

\* Variant of the URL-part branch that treats an unknown part as the part
\* after the "?".
HoleUrlPartAcceptsUnknown(ctx0) ==
    LET state == state_of(ctx0)
        url_part == url_part_of(ctx0)
        first == <<ESC_MODE_FOR_STATE(state)>>
    IN  IF url_part = "URL_PART_NONE"
        THEN IF state \in UrlStates
             THEN [ctx |-> [ctx0 EXCEPT !.url_part = "URL_PART_PRE_QUERY"],
                   esc_modes |-> <<"ESC_MODE_FILTER_URL", "ESC_MODE_NORMALIZE_URL">>,
                   problem |-> None]
             ELSE IF state \in CssStrStates
             THEN [ctx |-> [ctx0 EXCEPT !.url_part = "URL_PART_PRE_QUERY"],
                   esc_modes |-> <<"ESC_MODE_FILTER_URL">> \o first,
                   problem |-> None]
             ELSE [ctx |-> ctx0, esc_modes |-> first, problem |-> None]
        ELSE IF url_part = "URL_PART_PRE_QUERY"
        THEN [ctx |-> ctx0,
              esc_modes |-> IF state \notin CssStrStates
                            THEN <<"ESC_MODE_NORMALIZE_URL">> ELSE first,
              problem |-> None]
        ELSE [ctx |-> ctx0, esc_modes |-> <<"ESC_MODE_ESCAPE_URL">>,
              problem |-> None]

\* Variant of the URL-part branch that starts a URL in every state.
HoleUrlPartInEveryState(ctx0) ==
    LET state == state_of(ctx0)
        url_part == url_part_of(ctx0)
        first == <<ESC_MODE_FOR_STATE(state)>>
    IN  IF url_part = "URL_PART_NONE"
        THEN [ctx |-> [ctx0 EXCEPT !.url_part = "URL_PART_PRE_QUERY"],
              esc_modes |-> IF state \in UrlStates
                            THEN <<"ESC_MODE_FILTER_URL", "ESC_MODE_NORMALIZE_URL">>
                            ELSE first,
              problem |-> None]
        ELSE IF url_part = "URL_PART_PRE_QUERY"
        THEN [ctx |-> ctx0,
              esc_modes |-> IF state \notin CssStrStates
                            THEN <<"ESC_MODE_NORMALIZE_URL">> ELSE first,
              problem |-> None]
        ELSE IF url_part = "URL_PART_QUERY_OR_FRAG"
        THEN [ctx |-> ctx0, esc_modes |-> <<"ESC_MODE_ESCAPE_URL">>,
              problem |-> None]
        ELSE [ctx |-> STATE_ERROR, esc_modes |-> first,
              problem |-> "hole appears in an ambiguous URL context"]

\* The URL-part branch of esc_mode_for_hole: the context and the mode list
\* it leaves.
HoleUrlPart(ctx0) ==
    LET state == state_of(ctx0)
        url_part == url_part_of(ctx0)
        first == <<ESC_MODE_FOR_STATE(state)>>
    IN  IF url_part = "URL_PART_NONE"
        THEN IF state \in UrlStates
             THEN [ctx |-> [ctx0 EXCEPT !.url_part = "URL_PART_PRE_QUERY"],
                   esc_modes |-> <<"ESC_MODE_FILTER_URL", "ESC_MODE_NORMALIZE_URL">>,
                   problem |-> None]
             ELSE IF state \in CssStrStates
             THEN [ctx |-> [ctx0 EXCEPT !.url_part = "URL_PART_PRE_QUERY"],
                   esc_modes |-> <<"ESC_MODE_FILTER_URL">> \o first,
                   problem |-> None]
             ELSE [ctx |-> ctx0, esc_modes |-> first, problem |-> None]
        ELSE IF url_part = "URL_PART_PRE_QUERY"
        THEN [ctx |-> ctx0,
              esc_modes |-> IF state \notin CssStrStates
                            THEN <<"ESC_MODE_NORMALIZE_URL">> ELSE first,
              problem |-> None]
        ELSE IF url_part = "URL_PART_QUERY_OR_FRAG"
        THEN [ctx |-> ctx0, esc_modes |-> <<"ESC_MODE_ESCAPE_URL">>,
              problem |-> None]
        ELSE [ctx |-> STATE_ERROR, esc_modes |-> first,
              problem |-> "hole appears in an ambiguous URL context"]

\* context.force_epsilon_transition: the context a dynamic value is
\* interpolated in when the template leaves off in mid-tag.
force_epsilon_transition(context) ==
    LET state == state_of(context)
    IN  IF state \in {"STATE_TAG", "STATE_TAG_NAME", "STATE_AFTER_NAME"}
        THEN [context EXCEPT !.state = "STATE_ATTR_NAME", !.attr = "ATTR_NONE"]
        ELSE IF state = "STATE_BEFORE_VALUE"
        THEN context_after_attr_delimiter(
                 element_type_of(context), attr_type_of(context),
                 "DELIM_SPACE_OR_TAG_END")
        ELSE context

esc_mode_for_hole(context_before) ==
    LET Compressed(ctx, u, esc_modes) ==
            [ctx |-> ctx,
             esc_modes |-> CompressEscModes(esc_modes, esc_modes[1], 2),
             problem |-> u.problem,
             uncompressed |-> esc_modes]
        WithQuote(ctx, u, delim_type, esc_modes) ==
            Compressed(ctx, u,
                       IF delim_type # "DELIM_NONE"
                          /\ delim_type_of(context_before) = "DELIM_NONE"
                          /\ delim_type = "DELIM_SPACE_OR_TAG_END"
                       THEN Append(esc_modes, "ESC_MODE_OPEN_QUOTE")
                       ELSE esc_modes)
        WithAttr(ctx, u, delim_type) ==
            WithQuote(ctx, u, delim_type,
                      IF delim_type # "DELIM_NONE"
                         /\ u.esc_modes[Len(u.esc_modes)]
                                # "ESC_MODE_ESCAPE_HTML_ATTRIBUTE"
                      THEN Append(u.esc_modes, "ESC_MODE_ESCAPE_HTML_ATTRIBUTE")
                      ELSE u.esc_modes)
        InContext(ctx, u) == WithAttr(ctx, u, delim_type_of(ctx))
        UrlPart(ctx0, u) ==
            InContext(IF state_of(ctx0) = "STATE_JS"
                      THEN [u.ctx EXCEPT !.js_ctx = "JS_CTX_DIV_OP"] ELSE u.ctx,
                      u)
        Forced(ctx0) == UrlPart(ctx0, HoleUrlPart(ctx0))
    IN  Forced(force_epsilon_transition(context_before))

SANITIZER_FOR_ESC_MODE(esc_mode) ==
    CASE esc_mode = "ESC_MODE_ESCAPE_HTML" -> "escape_html"
      [] esc_mode = "ESC_MODE_ESCAPE_HTML_RCDATA" -> "escape_html_rcdata"
      [] esc_mode = "ESC_MODE_ESCAPE_HTML_ATTRIBUTE" -> "escape_html_attribute"
      [] esc_mode = "ESC_MODE_FILTER_HTML_ELEMENT_NAME" -> "filter_html_element_name"
      [] esc_mode = "ESC_MODE_FILTER_HTML_ATTRIBUTE" -> "filter_html_attribute"
      [] esc_mode = "ESC_MODE_ESCAPE_JS_STRING" -> "escape_js_string"
      [] esc_mode = "ESC_MODE_ESCAPE_JS_VALUE" -> "escape_js_value"
      [] esc_mode = "ESC_MODE_ESCAPE_JS_REGEX" -> "escape_js_regex"
      [] esc_mode = "ESC_MODE_ESCAPE_CSS_STRING" -> "escape_css_string"
      [] esc_mode = "ESC_MODE_FILTER_CSS_VALUE" -> "filter_css_value"
      [] esc_mode = "ESC_MODE_ESCAPE_URL" -> "escape_url"
      [] esc_mode = "ESC_MODE_NORMALIZE_URL" -> "normalize_url"
      [] esc_mode = "ESC_MODE_FILTER_URL" -> "filter_url"
      [] esc_mode = "ESC_MODE_ELIDE" -> "elide"
      [] esc_mode = "ESC_MODE_OPEN_QUOTE" -> "open_quote"
      [] OTHER -> None

-----------------------------------------------------------------------------
(* template.py: expressions and the Pipeline wrapper.                      *)
(* An expression is a reference/literal leaf or a call with arguments;     *)
(* x | a | b is the call b(a(x)).                                          *)

_ReferenceNode(props) == [kind |-> "ref", name |-> props, args |-> <<>>]
_CallNode(name, args) == [kind |-> "call", name |-> name, args |-> args]

_is_pipe(expr) == expr.kind = "call" /\ Len(expr.args) = 1

\* The value walk(expr) returns in element_at and insert_element_at: the
\* number of pipeline elements of expr.
RECURSIVE walk_count(_)
walk_count(expr) ==
    IF ~_is_pipe(expr) THEN 0 ELSE walk_count(expr.args[1]) + 1

RECURSIVE element_at(_, _)
element_at(expr, index) ==
    IF ~_is_pipe(expr) THEN None
    ELSE IF walk_count(expr.args[1]) = index THEN expr.name
    ELSE element_at(expr.args[1], index)

RECURSIVE insert_walk(_, _, _)
insert_walk(expr, index, name) ==
    IF ~_is_pipe(expr) THEN expr
    ELSE LET arg == expr.args[1]
             walked == insert_walk(arg, index, name)
             new_arg == IF walk_count(arg) = index
                        THEN _CallNode(name, <<walked>>) ELSE walked
         IN  [expr EXCEPT !.args = <<new_arg>>]

insert_element_at(expr, index, name) ==
    LET walked == insert_walk(expr, index, name)
    IN  IF walk_count(expr) = index THEN _CallNode(name, <<walked>>) ELSE walked

\* The names of the pipeline elements, leftmost first.
RECURSIVE PipeNames(_)
PipeNames(expr) ==
    IF ~_is_pipe(expr) THEN <<>>
    ELSE Append(PipeNames(expr.args[1]), expr.name)

RECURSIVE PipeOf(_, _)
PipeOf(base, names) ==
    IF names = <<>> THEN base
    ELSE _CallNode(names[Len(names)], <<PipeOf(base, Take(names, Len(names) - 1))>>)

-----------------------------------------------------------------------------
(* escape.py: ensure_pipeline_contains *)

_CANON_NAMES(fn_name) ==
    IF fn_name = "escape_html_attribute" THEN "escape_html" ELSE fn_name

_esc_fns_eq(fn_name_a, fn_name_b) ==
    _CANON_NAMES(fn_name_a) = _CANON_NAMES(fn_name_b)

\* Variant of the first loop that looks at the leftmost element only.
HasNoescapeLeftmostOnly(expr, el_pos) ==
    element_at(expr, el_pos) = "noescape"

\* First loop: is there an element named noescape?
RECURSIVE HasNoescape(_, _)
HasNoescape(expr, el_pos) ==
    LET element == element_at(expr, el_pos)
    IN  IF element = None THEN FALSE
        ELSE IF element = "noescape" THEN TRUE
        ELSE HasNoescape(expr, el_pos + 1)

\* for ti_pos in xrange(0, len(to_insert)): the first matching position, or 0.
RECURSIVE FirstMatch(_, _, _)
FirstMatch(element, required, ti_pos) ==
    IF ti_pos > Len(required) THEN 0
    ELSE IF _esc_fns_eq(element, required[ti_pos]) THEN ti_pos
    ELSE FirstMatch(element, required, ti_pos + 1)

\* Variant of the insertion loop that never advances el_pos.
RECURSIVE InsertAllSamePos(_, _, _)
InsertAllSamePos(expr, el_pos, names) ==
    IF names = <<>> THEN expr
    ELSE InsertAllSamePos(insert_element_at(expr, el_pos, names[1]), el_pos,
                          Drop(names, 1))

\* for name in names: pipeline.insert_element_at(el_pos, name); el_pos += 1
RECURSIVE InsertAll(_, _, _)
InsertAll(expr, el_pos, names) ==
    IF names = <<>> THEN expr
    ELSE InsertAll(insert_element_at(expr, el_pos, names[1]), el_pos + 1,
                   Drop(names, 1))

\* Variant of the second loop that keeps a matched name in the required list.
RECURSIVE MergeLoopKeepsMatched(_, _, _)
MergeLoopKeepsMatched(expr, el_pos, required) ==
    LET element == element_at(expr, el_pos)
    IN  IF element = None THEN InsertAll(expr, el_pos, required)
        ELSE LET ti_pos == FirstMatch(element, required, 1)
             IN  IF ti_pos = 0
                 THEN MergeLoopKeepsMatched(expr, el_pos + 1, required)
                 ELSE MergeLoopKeepsMatched(
                          InsertAll(expr, el_pos, Take(required, ti_pos - 1)),
                          el_pos + (ti_pos - 1) + 1,
                          Drop(required, ti_pos - 1))

\* Second loop and the trailing insertion.
RECURSIVE MergeLoop(_, _, _)
MergeLoop(expr, el_pos, required) ==
    LET element == element_at(expr, el_pos)
    IN  IF element = None THEN InsertAll(expr, el_pos, required)
        ELSE LET ti_pos == FirstMatch(element, required, 1)
             IN  IF ti_pos = 0 THEN MergeLoop(expr, el_pos + 1, required)
                 ELSE MergeLoop(InsertAll(expr, el_pos, Take(required, ti_pos - 1)),
                                el_pos + (ti_pos - 1) + 1,
                                Drop(required, ti_pos))

ensure_pipeline_contains(expr, required) ==
    IF required = <<>> THEN expr
    ELSE IF HasNoescape(expr, 0) THEN expr
    ELSE MergeLoop(expr, 0, required)

-----------------------------------------------------------------------------
(* template.py: statement nodes.  A node is a record whose id stands for    *)
(* the identity of the Python object: the analyzer's side tables are keyed  *)
(* by node, and nodes compare by identity.                                  *)

NoNode == [id |-> 0, kind |-> "none"]
\* quotes marks the double quotes of the text that the scanner wrote: "open"
\* or "close" for each, in order.  The author's text has none.
_TextNode(id, text) ==
    [id |-> id, kind |-> "text", text |-> text, quotes |-> <<>>]
_InterpolationNode(id, expr) == [id |-> id, kind |-> "interp", expr |-> expr]
_TemplateNode(id, name) == [id |-> id, kind |-> "template", name |-> name]
_BlockNode(id, block_type, body, else_clause) ==
    [id |-> id, kind |-> block_type, body |-> body, else_clause |-> else_clause]
_IfNode(id, body, else_clause) == _BlockNode(id, "if", body, else_clause)
_WithNode(id, body, else_clause) == _BlockNode(id, "with", body, else_clause)
_RangeNode(id, body, else_clause) == _BlockNode(id, "range", body, else_clause)
_ListNode(id, elements) == [id |-> id, kind |-> "list", elements |-> elements]

BlockTypes == {"if", "with", "range"}

\* Node.clone: a structural copy all of whose nodes are new objects.  The
\* copy's identities are the original's shifted by offset.
RECURSIVE clone(_, _)
clone(node, offset) ==
    IF node.kind = "none" THEN node
    ELSE IF node.kind \in BlockTypes
    THEN [node EXCEPT !.id = @ + offset,
                      !.body = clone(@, offset),
                      !.else_clause = clone(@, offset)]
    ELSE IF node.kind = "list"
    THEN [node EXCEPT !.id = @ + offset,
                      !.elements = [k \in DOMAIN @ |-> clone(@[k], offset)]]
    ELSE [node EXCEPT !.id = @ + offset]

\* The largest identity in a tree.
RECURSIVE MaxId(_)
MaxId(node) ==
    IF node.kind = "none" THEN 0
    ELSE IF node.kind \in BlockTypes
    THEN Max(node.id, Max(MaxId(node.body), MaxId(node.else_clause)))
    ELSE IF node.kind = "list"
    THEN LET ids == {MaxId(node.elements[k]) : k \in DOMAIN node.elements}
         IN  Max(node.id, IF ids = {} THEN 0 ELSE CHOOSE m \in ids : \A n \in ids : n <= m)
    ELSE node.id

-----------------------------------------------------------------------------
(* debug.py: context_to_string.  The string is modelled by the list of the  *)
(* names it joins: the state's name, then the name of every other field     *)
(* that is not zero.                                                        *)

context_to_string(ctx) ==
    <<state_of(ctx)>>
    \o (IF element_type_of(ctx) = "ELEMENT_NONE" THEN <<>> ELSE <<element_type_of(ctx)>>)
    \o (IF attr_type_of(ctx) = "ATTR_NONE" THEN <<>> ELSE <<attr_type_of(ctx)>>)
    \o (IF delim_type_of(ctx) = "DELIM_NONE" THEN <<>> ELSE <<delim_type_of(ctx)>>)
    \o (IF js_ctx_of(ctx) = "JS_CTX_NONE" THEN <<>> ELSE <<js_ctx_of(ctx)>>)
    \o (IF url_part_of(ctx) = "URL_PART_NONE" THEN <<>> ELSE <<url_part_of(ctx)>>)

-----------------------------------------------------------------------------
(* escape.py: _Analyzer *)

\* Side tables are functions; the empty table is the empty function.
EmptyMap == <<>>
Put(map, key, value) == (key :> value) @@ map

\* _Analyzer.__init__.  fresh numbers the clones made so far, raised is set
\* when a call raised instead of returning, and stepped lists every
\* (node, context) pair that step was called with.  steps, joined, reduced,
\* guessed and computed list what step, join and no_steady_state,
\* reduce_traces, _escape_template_body and _compute_end_context were called
\* with and what they returned; unlike the side tables they are kept when a
\* derived analyzer is dropped.
_Analyzer(name_to_body, start_state, templates) ==
    [name_to_body |-> name_to_body, start_state |-> start_state,
     templates |-> templates, called |-> {}, interps |-> EmptyMap,
     text_values |-> EmptyMap, calls |-> EmptyMap, errors |-> <<>>,
     fresh |-> 0, raised |-> FALSE, stepped |-> {}, steps |-> {},
     joined |-> {}, reduced |-> {}, guessed |-> {}, computed |-> {},
     contextualized_names |-> EmptyMap]

\* The side tables of an analyzer.
Tables(an) ==
    [templates |-> an.templates, called |-> an.called,
     text_values |-> an.text_values, interps |-> an.interps,
     calls |-> an.calls, errors |-> an.errors]

Result(ctx, an) == [ctx |-> ctx, an |-> an]

\* _Analyzer.error, without the debug hint.
error(an, msg) == [an EXCEPT !.errors = Append(@, msg)]

\* _copyinto from a derived analyzer into self, field by field.
_copyinto(self, analyzer) ==
    [self EXCEPT !.templates = analyzer.templates @@ @,
                 !.called = @ \cup analyzer.called,
                 !.text_values = analyzer.text_values @@ @,
                 !.interps = analyzer.interps @@ @,
                 !.calls = analyzer.calls @@ @,
                 !.errors = @ \o analyzer.errors,
                 !.stepped = @ \cup analyzer.stepped,
                 !.steps = @ \cup analyzer.steps,
                 !.joined = @ \cup analyzer.joined,
                 !.reduced = @ \cup analyzer.reduced,
                 !.guessed = @ \cup analyzer.guessed,
                 !.computed = @ \cup analyzer.computed]

\* Variant that keeps the calls the derived analyzer saw.
DroppedKeepsCalled(self, analyzer) ==
    [self EXCEPT !.fresh = analyzer.fresh,
                 !.called = @ \cup analyzer.called,
                 !.steps = @ \cup analyzer.steps,
                 !.joined = @ \cup analyzer.joined,
                 !.reduced = @ \cup analyzer.reduced,
                 !.guessed = @ \cup analyzer.guessed,
                 !.computed = @ \cup analyzer.computed]

\* self when a derived analyzer is dropped.
Dropped(self, analyzer) ==
    [self EXCEPT !.fresh = analyzer.fresh,
                 !.steps = @ \cup analyzer.steps,
                 !.joined = @ \cup analyzer.joined,
                 !.reduced = @ \cup analyzer.reduced,
                 !.guessed = @ \cup analyzer.guessed,
                 !.computed = @ \cup analyzer.computed]

\* The text-node branch of step.
StepText(start_state, step_value, an) ==
    LET Scanned(r) ==
            IF r.raised THEN Result(start_state, [an EXCEPT !.raised = TRUE])
            ELSE IF is_error_context(r.context)
            THEN Result(r.context,
                        error(an, <<"bad content in",
                                    context_to_string(r.error_ctx),
                                    r.error_text>>))
            ELSE IF r.normalized # step_value.text
            THEN Result(r.context,
                        [an EXCEPT !.text_values =
                            Put(@, step_value.id,
                                [text |-> r.normalized, quotes |-> r.quotes])])
            ELSE Result(r.context, an)
    IN  Scanned(process_raw_text(step_value.text, start_state))

\* The interpolation branch of step.
StepInterp(start_state, step_value, an) ==
    LET Recorded(hole, recorded) ==
            IF ~is_error_context(hole.ctx) THEN Result(hole.ctx, recorded)
            ELSE IF hole.problem = None
            THEN Result(hole.ctx,
                        error(recorded, <<"hole cannot appear in",
                                          context_to_string(start_state)>>))
            ELSE Result(hole.ctx, error(recorded, <<hole.problem>>))
        Selected(hole) ==
            Recorded(hole,
                     [an EXCEPT !.interps =
                         Put(@, step_value.id,
                             [pipeline |-> step_value.expr,
                              esc_modes |-> hole.esc_modes])])
    IN  Selected(esc_mode_for_hole(start_state))

\* functools.reduce(context_update.context_union, states)
RECURSIVE ReduceUnion(_)
ReduceUnion(states) ==
    IF Len(states) = 1 THEN states[1]
    ELSE context_union(ReduceUnion(Take(states, Len(states) - 1)),
                       states[Len(states)])

\* r, the result of join or no_steady_state, with the call added to joined.
Logged(an, fn, states, r) ==
    Result(r.ctx,
           [r.an EXCEPT !.joined = @ \cup
               {[fn |-> fn, states |-> states, out |-> r.ctx,
                 recorded |-> SubSeq(r.an.errors, Len(an.errors) + 1,
                                     Len(r.an.errors))]}])

\* Variant that reports every join that ends in an error context.
JoinAlwaysReports(an, states) ==
    LET Joined(out_state) ==
            Logged(an, "join", states,
                   IF is_error_context(out_state)
                   THEN Result(out_state,
                               error(an, <<"branches end in incompatible contexts">>
                                         \o [k \in DOMAIN states |->
                                                context_to_string(states[k])]))
                   ELSE Result(out_state, an))
    IN  Joined(ReduceUnion(states))

join(an, states) ==
    LET Seen(out_state, seen) ==
            IF is_error_context(out_state)
               /\ \A k \in DOMAIN states : ~is_error_context(states[k])
            THEN Result(out_state,
                        error(seen, <<"branches end in incompatible contexts">>
                                    \o [k \in DOMAIN states |->
                                           context_to_string(states[k])]))
            ELSE Result(out_state, seen)
        Joined(out_state) == Logged(an, "join", states, Seen(out_state, an))
    IN  Joined(ReduceUnion(states))

\* Variant that joins the states of a loop that does not settle.
NoSteadyStateJoins(an, states) == join(an, states)

no_steady_state(an, states) ==
    Logged(an, "no_steady_state", states,
           IF \E k \in DOMAIN states : is_error_context(states[k])
           THEN Result(states[CHOOSE k \in DOMAIN states :
                                  /\ is_error_context(states[k])
                                  /\ \A j \in 1..(k - 1) :
                                        ~is_error_context(states[j])],
                       an)
           ELSE Result(STATE_ERROR,
                       error(an, <<"loop switches between states">>
                                 \o [k \in DOMAIN states |->
                                        context_to_string(states[k])])))

\* The distance between the identities of a body and those of its next
\* clone: more than any identity in name_to_body.
IdStride(name_to_body) ==
    LET ids == {MaxId(name_to_body[n]) : n \in DOMAIN name_to_body}
    IN  1 + (IF ids = {} THEN 0 ELSE CHOOSE m \in ids : \A n \in ids : n <= m)

\* Variant that rejects every end context of a template that called itself.
CtxFilterRejectsRecursion(end_ctx, analyzer, name_and_ctx, assumed_end_ctx) ==
    ~(is_error_context(end_ctx) \/ name_and_ctx \in analyzer.called)

\* ctx_filter in _escape_template_body.
ctx_filter(end_ctx, analyzer, name_and_ctx, assumed_end_ctx) ==
    ~(\/ is_error_context(end_ctx)
      \/ (name_and_ctx \in analyzer.called /\ assumed_end_ctx # end_ctx))

\* What _escape_body_conditionally and _escape_template_body return: the
\* end context, the problems (ok stands for "problems is None") and self;
\* derived holds the side tables of the derived analyzer.
Guess(ctx, ok, problems, an, derived) ==
    [ctx |-> ctx, ok |-> ok, problems |-> problems, an |-> an,
     derived |-> derived]

RECURSIVE reduce_traces(_, _, _)
RECURSIVE ReduceElements(_, _, _, _)
RECURSIVE step(_, _, _)
RECURSIVE external_call(_, _, _)
RECURSIVE _compute_end_context(_, _, _)
RECURSIVE _escape_template_body(_, _, _, _)
RECURSIVE _escape_body_conditionally(_, _, _, _, _)

\* _ListNode.reduce_traces: thread the context through the elements.
ReduceElements(elements, k, start_state, an) ==
    LET Element(r) == ReduceElements(elements, k + 1, r.ctx, r.an)
    IN  IF k > Len(elements) THEN Result(start_state, an)
        ELSE Element(reduce_traces(elements[k], start_state, an))

\* The reduce_traces methods of the nodes; a call that returns is added to
\* reduced with the side tables before and after it.
reduce_traces(node, start_state, an) ==
    LET Reduced(r) ==
            IF r.an.raised THEN r
            ELSE Result(r.ctx,
                        [r.an EXCEPT !.reduced = @ \cup
                            {[node |-> node, start |-> start_state,
                              end |-> r.ctx, before |-> Tables(an),
                              after |-> Tables(r.an)]}])
        Else(self) ==
            IF node.else_clause.kind = "none" THEN Result(start_state, self)
            ELSE reduce_traces(node.else_clause, start_state, self)
        \* _IfNode and _WithNode
        Branches(then_r, else_r) ==
            IF else_r.an.raised THEN Result(start_state, else_r.an)
            ELSE join(else_r.an, <<then_r.ctx, else_r.ctx>>)
        Then(then_r) == Branches(then_r, Else(then_r.an))
        \* _RangeNode
        Looped(zero_r, once_r, twice_r) ==
            IF twice_r.an.raised THEN Result(start_state, twice_r.an)
            ELSE IF once_r.ctx # twice_r.ctx
            THEN no_steady_state(twice_r.an, <<once_r.ctx, twice_r.ctx>>)
            ELSE join(twice_r.an, <<zero_r.ctx, once_r.ctx>>)
        Twice(zero_r, once_r) ==
            Looped(zero_r, once_r,
                   reduce_traces(node.body, once_r.ctx, once_r.an))
        Once(zero_r) ==
            Twice(zero_r, reduce_traces(node.body, start_state, zero_r.an))
    IN  IF an.raised THEN Result(start_state, an)
        ELSE Reduced(
                 IF node.kind \in {"text", "interp", "template"}
                 THEN step(an, start_state, node)
                 ELSE IF node.kind = "list"
                 THEN ReduceElements(node.elements, 1, start_state, an)
                 ELSE IF node.kind \in {"if", "with"}
                 THEN Then(reduce_traces(node.body, start_state, an))
                 ELSE Once(Else(an)))

step(an, start_state, step_value) ==
    LET Called(r) ==
            IF r.an.raised THEN r
            ELSE Result(r.ctx,
                        [r.an EXCEPT !.calls = Put(@, step_value.id, start_state)])
        Seen(seen) ==
            IF step_value.kind = "text"
            THEN StepText(start_state, step_value, seen)
            ELSE IF step_value.kind = "interp"
            THEN StepInterp(start_state, step_value, seen)
            ELSE Called(external_call(seen, step_value.name, start_state))
        Stepped(r) ==
            Result(r.ctx,
                   [r.an EXCEPT !.steps = @ \cup
                       {[node |-> step_value, start |-> start_state,
                         end |-> r.ctx, raised |-> r.an.raised]}])
    IN  IF is_error_context(start_state) THEN Result(start_state, an)
        ELSE Stepped(Seen([an EXCEPT !.stepped =
                              @ \cup {<<step_value.id, start_state>>}]))

external_call(an, tmpl_name, start_ctx) ==
    LET Compute(self, name_and_ctx, cloned) ==
            _compute_end_context(
                IF cloned THEN [self EXCEPT !.fresh = @ + 1] ELSE self,
                name_and_ctx,
                IF cloned
                THEN clone(self.name_to_body[tmpl_name],
                           (self.fresh + 1) * IdStride(self.name_to_body))
                ELSE self.name_to_body[tmpl_name])
        Recorded(self, name_and_ctx) ==
            IF name_and_ctx \in DOMAIN self.templates
            THEN Result(self.templates[name_and_ctx].end_context, self)
            ELSE IF tmpl_name \notin DOMAIN self.name_to_body
            THEN Result(STATE_ERROR,
                        error(self, <<"no such template", tmpl_name>>))
            ELSE Compute(self, name_and_ctx, start_ctx # self.start_state)
    IN  Recorded([an EXCEPT !.called = @ \cup {<<tmpl_name, start_ctx>>}],
                 <<tmpl_name, start_ctx>>)

_compute_end_context(an, name_and_ctx, body) ==
    LET Pass(assumed_end_ctx, guess) ==
            [assumed |-> assumed_end_ctx, end |-> guess.ctx, ok |-> guess.ok]
        Computed(passes, r) ==
            Result(r.ctx,
                   [r.an EXCEPT !.computed = @ \cup
                       {[key |-> name_and_ctx, passes |-> passes,
                         out |-> r.ctx,
                         recorded |-> SubSeq(r.an.errors, Len(an.errors) + 1,
                                             Len(r.an.errors))]}])
        Explained(first, second, explained) ==
            Result(STATE_ERROR,
                   [explained EXCEPT !.errors = @ \o first.problems])
        Second(first, second) ==
            IF second.an.raised THEN Result(name_and_ctx[2], second.an)
            ELSE Computed(
                     <<Pass(name_and_ctx[2], first), Pass(first.ctx, second)>>,
                     IF second.ok THEN Result(second.ctx, second.an)
                     ELSE Explained(
                              first, second,
                              IF ~is_error_context(first.ctx)
                              THEN error(second.an,
                                         <<"cannot compute output context for template",
                                           name_and_ctx[1],
                                           context_to_string(name_and_ctx[2])>>)
                              ELSE second.an))
        First(first) ==
            IF first.an.raised THEN Result(name_and_ctx[2], first.an)
            ELSE IF first.ok
            THEN Computed(<<Pass(name_and_ctx[2], first)>>,
                          Result(first.ctx, first.an))
            ELSE Second(first,
                        _escape_template_body(first.an, name_and_ctx,
                                              first.ctx, body))
    IN  First(_escape_template_body(an, name_and_ctx, name_and_ctx[2], body))

_escape_template_body(an, name_and_ctx, assumed_end_ctx, body) ==
    LET Returned(guess, self) ==
            Guess(guess.ctx, guess.ok, guess.problems,
                  [self EXCEPT !.guessed = @ \cup
                      {[key |-> name_and_ctx, assumed |-> assumed_end_ctx,
                        ok |-> guess.ok, end |-> guess.ctx,
                        derived |-> guess.derived,
                        before |-> Tables(an), after |-> Tables(self)]}],
                  guess.derived)
        Guessed(guess) ==
            IF guess.an.raised THEN guess
            ELSE Returned(guess,
                          [guess.an EXCEPT !.templates =
                              Put(@, name_and_ctx,
                                  [body |-> body,
                                   end_context |-> IF guess.ok THEN guess.ctx
                                                   ELSE STATE_ERROR])])
    IN  Guessed(_escape_body_conditionally(
                    [an EXCEPT !.templates =
                        Put(@, name_and_ctx,
                            [body |-> body, end_context |-> assumed_end_ctx])],
                    name_and_ctx[2], body, name_and_ctx, assumed_end_ctx))

_escape_body_conditionally(self, start_ctx, body, name_and_ctx, assumed_end_ctx) ==
    LET Reduced(r, analyzer) ==
            IF analyzer.raised
            THEN Guess(r.ctx, FALSE, <<>>,
                       [Dropped(self, analyzer) EXCEPT !.raised = TRUE],
                       Tables(analyzer))
            ELSE IF ~ctx_filter(r.ctx, analyzer, name_and_ctx, assumed_end_ctx)
            THEN Guess(r.ctx, FALSE, analyzer.errors, Dropped(self, analyzer),
                       Tables(analyzer))
            ELSE Guess(r.ctx, TRUE, <<>>,
                       [_copyinto(self, analyzer) EXCEPT !.fresh = analyzer.fresh],
                       Tables(analyzer))
        Traced(r) == Reduced(r, r.an)
    IN  Traced(reduce_traces(
                   body, start_ctx,
                   [_Analyzer(self.name_to_body, self.start_state, self.templates)
                       EXCEPT !.fresh = self.fresh]))


\* Variant of the loop that takes the first name without looking.
UniqueNameUnchecked(base_contextualized_name, contextualized_name, counter, name_to_body) ==
    base_contextualized_name

\* The while loop of contextualize_name: try base, base0, base1, ... until
\* the name is not a key of name_to_body.
RECURSIVE UniqueName(_, _, _, _)
UniqueName(base_contextualized_name, contextualized_name, counter, name_to_body) ==
    IF contextualized_name \notin DOMAIN name_to_body THEN contextualized_name
    ELSE UniqueName(base_contextualized_name,
                    base_contextualized_name \o <<ToString(counter)>>,
                    counter + 1, name_to_body)

\* A template name is the list of the pieces of its string: the author's
\* name, then "$" and the pieces of the context string, then the counter.
\* rw is the state of rewrite: name_to_body and contextualized_names.
contextualize_name(rw, start_state, tmpl_name, start_ctx) ==
    LET Fresh(key, contextualized_name) ==
            [name |-> contextualized_name,
             rw |-> [rw EXCEPT !.contextualized_names =
                        Put(@, key, contextualized_name)]]
        Based(key, base_contextualized_name) ==
            Fresh(key, UniqueName(base_contextualized_name,
                                  base_contextualized_name, 0, rw.name_to_body))
        Keyed(key) ==
            IF start_ctx = start_state THEN [name |-> tmpl_name, rw |-> rw]
            ELSE IF key \in DOMAIN rw.contextualized_names
            THEN [name |-> rw.contextualized_names[key], rw |-> rw]
            ELSE Based(key, tmpl_name \o <<"$">> \o context_to_string(start_ctx))
    IN  Keyed(<<tmpl_name, start_ctx>>)

RECURSIVE rewrite_node(_, _, _)
RECURSIVE RewriteChildren(_, _, _, _)

\* [rewrite_node(child) for child in children], left to right.
RewriteChildren(an, rw, children, k) ==
    LET Rest(head, rest) ==
            [nodes |-> <<head.node>> \o rest.nodes, rw |-> rest.rw]
        Child(head) == Rest(head, RewriteChildren(an, head.rw, children, k + 1))
    IN  IF k > Len(children) THEN [nodes |-> <<>>, rw |-> rw]
        ELSE Child(rewrite_node(an, rw, children[k]))

rewrite_node(an, rw, node) ==
    LET Required(interp) ==
            [k \in DOMAIN interp.esc_modes |->
                SANITIZER_FOR_ESC_MODE(interp.esc_modes[k])]
        Interp(interp) ==
            [node EXCEPT !.expr =
                ensure_pipeline_contains(interp.pipeline, Required(interp))]
        Call(out) == [node |-> [node EXCEPT !.name = out.name], rw |-> out.rw]
        Elements(rewritten) ==
            [node |-> [node EXCEPT !.elements = rewritten.nodes],
             rw |-> rewritten.rw]
        Block(rewritten) ==
            [node |-> [node EXCEPT !.body = rewritten.nodes[1],
                                   !.else_clause = rewritten.nodes[2]],
             rw |-> rewritten.rw]
    IN  IF node.kind = "none" THEN [node |-> node, rw |-> rw]
        ELSE IF node.kind = "text"
        THEN [node |-> IF node.id \in DOMAIN an.text_values
                       THEN [node EXCEPT
                                !.text = an.text_values[node.id].text,
                                !.quotes = an.text_values[node.id].quotes]
                       ELSE node,
              rw |-> rw]
        ELSE IF node.kind = "interp"
        THEN [node |-> IF node.id \in DOMAIN an.interps
                       THEN Interp(an.interps[node.id]) ELSE node,
              rw |-> rw]
        ELSE IF node.kind = "template"
        THEN IF node.id \in DOMAIN an.calls
             THEN Call(contextualize_name(rw, an.start_state, node.name,
                                          an.calls[node.id]))
             ELSE [node |-> node, rw |-> rw]
        ELSE IF node.kind = "list"
        THEN Elements(RewriteChildren(an, rw, node.elements, 1))
        ELSE Block(RewriteChildren(an, rw, <<node.body, node.else_clause>>, 1))

\* The loop of rewrite over self.templates, visited in the given order.
RECURSIVE RewriteLoop(_, _, _, _)
RewriteLoop(an, rw, order, k) ==
    LET Rewritten(named, rewritten) ==
            RewriteLoop(an,
                        [rewritten.rw EXCEPT !.name_to_body =
                            Put(@, named.name, rewritten.node)],
                        order, k + 1)
        Named(named) ==
            Rewritten(named,
                      rewrite_node(an, named.rw, an.templates[order[k]].body))
    IN  IF k > Len(order) THEN rw
        ELSE Named(contextualize_name(rw, an.start_state,
                                      order[k][1], order[k][2]))

\* rewrite returns the name_to_body it leaves, with the names it gave.
rewrite(an, order) ==
    RewriteLoop(an, [name_to_body |-> an.name_to_body,
                     contextualized_names |-> EmptyMap], order, 1)

-----------------------------------------------------------------------------
(* escape.py: escape *)

\* Variant of the loop that does not set has_errors for an error end state.
RECURSIVE PublicLoopErrorEndPasses(_, _, _, _)
PublicLoopErrorEndPasses(an, public_template_names, k, has_errors) ==
    LET Ended(name, r) ==
            IF is_error_context(r.ctx)
            THEN PublicLoopErrorEndPasses(r.an, public_template_names, k + 1, has_errors)
            ELSE IF r.ctx # an.start_state
            THEN PublicLoopErrorEndPasses(
                     error(r.an,
                           <<"template does not start and end in the same context",
                             name, context_to_string(r.ctx)>>),
                     public_template_names, k + 1, TRUE)
            ELSE PublicLoopErrorEndPasses(r.an, public_template_names, k + 1, has_errors)
        Named(name) == Ended(name, external_call(an, name, an.start_state))
    IN  IF k > Len(public_template_names) \/ an.raised
        THEN [an |-> an, has_errors |-> has_errors]
        ELSE Named(public_template_names[k])

\* Variant of the loop that accepts any end state that is not an error.
RECURSIVE PublicLoopAnyEndPasses(_, _, _, _)
PublicLoopAnyEndPasses(an, public_template_names, k, has_errors) ==
    LET Ended(r) ==
            PublicLoopAnyEndPasses(r.an, public_template_names, k + 1,
                                   has_errors \/ is_error_context(r.ctx))
    IN  IF k > Len(public_template_names) \/ an.raised
        THEN [an |-> an, has_errors |-> has_errors]
        ELSE Ended(external_call(an, public_template_names[k], an.start_state))

\* for name in public_template_names: ...
RECURSIVE PublicLoop(_, _, _, _)
PublicLoop(an, public_template_names, k, has_errors) ==
    LET Ended(name, r) ==
            IF is_error_context(r.ctx)
            THEN PublicLoop(r.an, public_template_names, k + 1, TRUE)
            ELSE IF r.ctx # an.start_state
            THEN PublicLoop(
                     error(r.an,
                           <<"template does not start and end in the same context",
                             name, context_to_string(r.ctx)>>),
                     public_template_names, k + 1, TRUE)
            ELSE PublicLoop(r.an, public_template_names, k + 1, has_errors)
        Named(name) == Ended(name, external_call(an, name, an.start_state))
    IN  IF k > Len(public_template_names) \/ an.raised
        THEN [an |-> an, has_errors |-> has_errors]
        ELSE Named(public_template_names[k])

\* The analysis phase of escape: everything before "if has_errors".
Analysis(body_map, names, start) ==
    PublicLoop(_Analyzer(body_map, start, EmptyMap), names, 1, FALSE)

\* The orders in which a dict with the given keys can be iterated.
RECURSIVE Orders(_)
Orders(keys) ==
    IF keys = {} THEN {<<>>}
    ELSE UNION {{<<key>> \o rest : rest \in Orders(keys \ {key})} : key \in keys}

-----------------------------------------------------------------------------
(* Executing a rewritten template: the synthesized quotes along a trace *)

MaxIter == 2
MaxDepth == 2

\* The concatenations of one sequence of each set, in order.
Concat(traces_a, traces_b) == {a \o b : a \in traces_a, b \in traces_b}

\* _RangeNode.execute with 1..n iterations of the body.
RECURSIVE Iterations(_, _)
Iterations(body_traces, n) ==
    IF n = 0 THEN {}
    ELSE body_traces \cup Concat(body_traces, Iterations(body_traces, n - 1))

\* The execute methods: the lists of synthesized quotes that running node
\* can write, one list per trace.  A text node writes its marked quotes, an
\* interpolation writes an opening quote when open_quote is in its
\* pipeline, a template call runs the body its name selects.
RECURSIVE Traces(_, _, _)
RECURSIVE TracesOfElements(_, _, _, _)
TracesOfElements(elements, k, body_map, depth) ==
    IF k > Len(elements) THEN {<<>>}
    ELSE Concat(Traces(elements[k], body_map, depth),
                TracesOfElements(elements, k + 1, body_map, depth))

Traces(node, body_map, depth) ==
    IF node.kind = "text" THEN {node.quotes}
    ELSE IF node.kind = "interp"
    THEN {IF \E k \in DOMAIN PipeNames(node.expr) :
                 PipeNames(node.expr)[k] = "open_quote"
          THEN <<"open">> ELSE <<>>}
    ELSE IF node.kind = "template"
    THEN IF depth = 0 \/ node.name \notin DOMAIN body_map THEN {}
         ELSE Traces(body_map[node.name], body_map, depth - 1)
    ELSE IF node.kind = "list"
    THEN TracesOfElements(node.elements, 1, body_map, depth)
    ELSE LET body_traces == Traces(node.body, body_map, depth)
             else_traces == IF node.else_clause.kind = "none" THEN {<<>>}
                            ELSE Traces(node.else_clause, body_map, depth)
         IN  IF node.kind = "range"
             THEN else_traces \cup Iterations(body_traces, MaxIter)
             ELSE body_traces \cup else_traces

-----------------------------------------------------------------------------
(* Harness for escape: template sets built from a frame of two text nodes  *)
(* around one construct, with a helper template h                          *)

MaxRuns == 2

Hole(id) == _InterpolationNode(id, _ReferenceNode("X"))

Frames ==
    { <<<<"<", "p", " ", "t", "i", "t", "l", "e", "=">>, <<">">>>>,
      <<<<"<", "a", " ", "h", "r", "e", "f", "=", "\"">>, <<"\"", ">">>>>,
      <<<<"<", "a", " ", "h", "r", "e", "f", "=">>, <<">">>>>,
      <<<<"<", "s", "c", "r", "i", "p", "t", ">">>,
        <<"<", "/", "s", "c", "r", "i", "p", "t", ">">>>>,
      <<<<"<", "s", "c", "r", "i", "p", "t", ">", "x", "=", "1">>,
        <<"/", "2", "<", "/", "s", "c", "r", "i", "p", "t", ">">>>>,
      <<<<"<", "b", ">">>, <<"<", "/", "b", ">">>>>,
      <<<<"<", "b", " ", "i", "d", "=", "\"">>, <<>>>>,
      <<<<"<", "a", "<", "a">>, <<">">>>> }

Middles ==
    { Hole(3),
      _IfNode(3, Hole(4), NoNode),
      _IfNode(3, Hole(4), Hole(5)),
      _WithNode(3, _TextNode(4, <<"x">>), _TextNode(5, <<"+">>)),
      _RangeNode(3, Hole(4), NoNode),
      _TemplateNode(3, <<"h">>),
      _TemplateNode(3, <<"g">>),
      _RangeNode(3, _TemplateNode(4, <<"h">>), NoNode),
      _ListNode(3, <<_TemplateNode(4, <<"h">>), _TextNode(5, <<" ">>),
                     _TemplateNode(6, <<"h">>)>>),
      _ListNode(3, <<_IfNode(4, _TextNode(5, <<"/", "p", "?", "q", "=">>),
                                _TextNode(6, <<"/", "p", "/">>)),
                     Hole(11)>>),
      _ListNode(3, <<_IfNode(4, _TextNode(5, <<"/", "p", "?", "q", "=">>),
                                _TextNode(6, <<"/", "p", "#">>)),
                     Hole(11)>>),
      _RangeNode(3, _TextNode(4, <<"'">>), NoNode),
      _RangeNode(3, _TextNode(4, <<"<", "a">>), NoNode),
      _RangeNode(3, Hole(4), _TextNode(5, <<"+">>)) }

Helpers ==
    { Hole(8),
      _ListNode(8, <<_TextNode(9, <<"x">>), Hole(10)>>),
      _ListNode(8, <<_IfNode(9, _TemplateNode(10, <<"h">>), NoNode),
                     Hole(12)>>),
      _ListNode(8, <<_IfNode(9, _TemplateNode(10, <<"h">>), NoNode),
                     Hole(12), _TextNode(13, <<"\"", ",">>)>>),
      _ListNode(8, <<_IfNode(9, _TemplateNode(10, <<"main">>), NoNode),
                     Hole(12)>>) }

StartStates ==
    { STATE_TEXT,
      [StateCtx("STATE_JS") EXCEPT !.element = "ELEMENT_SCRIPT",
                                   !.js_ctx = "JS_CTX_REGEX"] }

PublicNames == { <<<<"main">>>>, <<<<"main">>, <<"h">>>> }

\* The name rewrite would first try for the clone of h called inside the
\* double-quoted value of an href.
TakenName ==
    <<"h", "$">>
    \o context_to_string([StateCtx("STATE_URL") EXCEPT
                              !.delim = "DELIM_DOUBLE_QUOTE"])

\* Sets in which an author's template already has that name.
SetsWithTakenName ==
    { (<<"main">> :> _ListNode(1, <<_TextNode(2, <<"<", "a", " ", "h", "r", "e",
                                                   "f", "=", "\"">>),
                                    middle, _TextNode(7, <<"\"", ">">>)>>))
      @@ (<<"h">> :> Hole(8))
      @@ (TakenName :> _TextNode(14, <<"x">>)) :
        middle \in { _TemplateNode(3, <<"h">>),
                     _ListNode(3, <<_TemplateNode(4, <<"h">>),
                                    _TextNode(5, <<" ">>),
                                    _TemplateNode(6, <<"h">>)>>) } }

TemplateSets ==
    { (<<"main">> :> _ListNode(1, <<_TextNode(2, frame[1]), middle,
                                    _TextNode(7, frame[2])>>))
      @@ (<<"h">> :> helper) :
        frame \in Frames, middle \in Middles, helper \in Helpers }
    \cup SetsWithTakenName

\* What is kept of an operation: its kind ("text" or "hole"), the context it
\* started in, the text scanned and the escape modes chosen.
Op(kind, context, text, esc_modes) ==
    [kind |-> kind, context |-> context, text |-> text, esc_modes |-> esc_modes]

NoOp == Op("none", STATE_TEXT, <<>>, <<>>)

\* The value of scan_result before a chunk is scanned.
NoResult == ProcessResult(STATE_TEXT, NoText, NoContext, NoText, FALSE, <<>>)

ScanIdle ==
    /\ scan_context = STATE_TEXT /\ last_op = NoOp /\ prev_op = NoOp
    /\ scan_steps = 0
    /\ scan_result = NoResult

\* The value of trace before a trace is executed.
NoTrace == <<"none">>

NoUnion == [done |-> FALSE]

InsIdle ==
    /\ InsertIndex = 0 /\ InsertName = None
    /\ UnionArgs = <<STATE_TEXT, STATE_TEXT>> /\ UnionResult = NoUnion

\* The value of HoleResult before esc_mode_for_hole is called.
NoHole == [done |-> FALSE]

HoleIdle == HoleContext = STATE_TEXT /\ HoleResult = NoHole

FileIdle ==
    /\ start_context = STATE_TEXT /\ ctx_ = STATE_TEXT /\ underlying_ = <<>>
    /\ file_calls = <<>> /\ file_raised = FALSE

PipeIdle ==
    /\ pipeline = None /\ pipeline0 = None
    /\ to_insert = <<>> /\ calls_made = 0
    /\ InsIdle

EscIdle ==
    /\ NameToBody = EmptyMap /\ NameToBodyBefore = EmptyMap
    /\ PublicTemplateNames = <<>> /\ StartState = STATE_TEXT
    /\ outcome = "none" /\ analysis = None /\ runs = 0 /\ trace = NoTrace

InitEsc ==
    /\ mode = "escape"
    /\ PipeIdle
    /\ ScanIdle
    /\ HoleIdle
    /\ FileIdle
    /\ NameToBody \in TemplateSets
    /\ NameToBodyBefore = NameToBody
    /\ PublicTemplateNames \in PublicNames
    /\ StartState \in StartStates
    /\ outcome = "none" /\ analysis = None /\ runs = 0 /\ trace = NoTrace

\* escape(name_to_body, public_template_names, start_state): the analysis,
\* then either the raise or rewrite.  analysis keeps the analyzer for the
\* properties to inspect.
Escape ==
    /\ mode = "escape"
    /\ outcome \in {"none", "ok"}
    /\ runs < MaxRuns
    /\ trace = NoTrace
    /\ LET Rewritten(an, rw) ==
               /\ NameToBody' = rw.name_to_body
               /\ analysis' = [an EXCEPT !.contextualized_names =
                                            rw.contextualized_names]
           Analysed(a) ==
               IF a.an.raised
               THEN /\ outcome' = "exception"
                    /\ NameToBody' = a.an.name_to_body /\ analysis' = a.an
               ELSE IF a.has_errors
               THEN /\ outcome' = "EscapeError"
                    /\ NameToBody' = a.an.name_to_body /\ analysis' = a.an
               ELSE /\ outcome' = "ok"
                    /\ \E order \in Orders(DOMAIN a.an.templates) :
                          Rewritten(a.an, rewrite(a.an, order))
       IN  Analysed(Analysis(NameToBody, PublicTemplateNames, StartState))
    /\ NameToBodyBefore' = NameToBody
    /\ runs' = runs + 1
    /\ UNCHANGED <<mode, PublicTemplateNames, StartState, trace, pipeVars,
                   scanVars, insVars, unionVars, holeVars, fileVars>>

\* Run a public template of an escaped set along one trace.
Execute ==
    /\ mode = "escape"
    /\ outcome = "ok"
    /\ trace = NoTrace
    /\ \E k \in DOMAIN PublicTemplateNames :
          trace' \in Traces(NameToBody[PublicTemplateNames[k]],
                            NameToBody, MaxDepth)
    /\ UNCHANGED <<mode, NameToBody, NameToBodyBefore, PublicTemplateNames,
                   StartState, outcome, analysis, runs, pipeVars, scanVars,
                   insVars, unionVars, holeVars, fileVars>>

NextEsc == Escape \/ Execute

SpecEsc == InitEsc /\ [][NextEsc]_vars

-----------------------------------------------------------------------------
(* Properties of escape *)

Raised == {"EscapeError", "exception"}

Messages(an) == {an.errors[k] : k \in DOMAIN an.errors}

\* All the nodes of a tree.
RECURSIVE NodesOf(_)
NodesOf(node) ==
    IF node.kind = "none" THEN {}
    ELSE IF node.kind \in BlockTypes
    THEN {node} \cup NodesOf(node.body) \cup NodesOf(node.else_clause)
    ELSE IF node.kind = "list"
    THEN {node} \cup UNION {NodesOf(node.elements[k]) : k \in DOMAIN node.elements}
    ELSE {node}

NodesOfMap(body_map) == UNION {NodesOf(body_map[n]) : n \in DOMAIN body_map}

\* The bodies the analyzer memoized, before rewriting.
AnalysedNodes(an) ==
    UNION {NodesOf(an.templates[key].body) : key \in DOMAIN an.templates}

\* C1: if any error message was recorded during the analysis, escape raises;
\* when escape raises, NameToBody is what it was when escape was called; and
\* the analysis itself leaves name_to_body as it was.
C1_ErrorsAbortRewrite ==
    (mode = "escape" /\ runs >= 1) =>
        /\ analysis.errors # <<>> => outcome \in Raised
        /\ outcome \in Raised => NameToBody = NameToBodyBefore
        /\ analysis.name_to_body = NameToBodyBefore

\* An escape call that recorded an error after it had cloned a body.
C1_Witness ==
    /\ mode = "escape" /\ runs >= 1
    /\ outcome = "EscapeError"
    /\ analysis.errors # <<>>
    /\ analysis.fresh > 0
    /\ NameToBody = NameToBodyBefore

EndMismatch(name, end_state) ==
    <<"template does not start and end in the same context", name,
      context_to_string(end_state)>>

\* C2: escape returns normally only if every public template's analysed end
\* context is start_state; a public template analysed to end in a context
\* that is neither start_state nor an error context has its "does not start
\* and end in the same context" message recorded and escape raises.
C2_PublicEndsWhereItStarts ==
    (mode = "escape" /\ runs >= 1 /\ outcome \in {"ok", "EscapeError"}) =>
        \A k \in DOMAIN PublicTemplateNames :
            LET name == PublicTemplateNames[k]
                key == <<name, StartState>>
                end_state == analysis.templates[key].end_context
            IN  /\ outcome = "ok" =>
                    key \in DOMAIN analysis.templates /\ end_state = StartState
                /\ (/\ key \in DOMAIN analysis.templates
                    /\ end_state # StartState
                    /\ ~is_error_context(end_state)) =>
                        /\ outcome = "EscapeError"
                        /\ EndMismatch(name, end_state) \in Messages(analysis)

\* escape raised because a public template ends in another context than it
\* starts in, and a second public template ends where it starts.
C2_Witness ==
    /\ mode = "escape" /\ runs >= 1 /\ outcome = "EscapeError"
    /\ Len(PublicTemplateNames) = 2
    /\ \E k \in DOMAIN PublicTemplateNames :
          LET key == <<PublicTemplateNames[k], StartState>>
          IN  /\ key \in DOMAIN analysis.templates
              /\ ~is_error_context(analysis.templates[key].end_context)
              /\ analysis.templates[key].end_context # StartState
    /\ \E k \in DOMAIN PublicTemplateNames :
          LET key == <<PublicTemplateNames[k], StartState>>
          IN  /\ key \in DOMAIN analysis.templates
              /\ analysis.templates[key].end_context = StartState

\* Every "close" has exactly one "open" since the close before it.
RECURSIVE Paired(_, _)
Paired(quotes, opened) ==
    IF quotes = <<>> THEN TRUE
    ELSE IF quotes[1] = "open" THEN Paired(Drop(quotes, 1), opened + 1)
    ELSE opened = 1 /\ Paired(Drop(quotes, 1), 0)

\* C3: on every trace through an accepted template set, each synthesized
\* closing quote of an unquoted attribute value is preceded by exactly one
\* synthesized opening quote for that value.
C3_QuotesPaired ==
    (mode = "escape" /\ trace # NoTrace) => Paired(trace, 0)

\* C5: after a successful escape, a call site that the analysis stepped in
\* context c calls the body that was analysed with c as its start context.
C5_CallSiteNamesItsContext ==
    (mode = "escape" /\ runs = 1 /\ outcome = "ok") =>
        \A site \in NodesOfMap(NameToBody), stepped \in analysis.stepped :
            (site.kind = "template" /\ stepped[1] = site.id) =>
                \E original \in AnalysedNodes(analysis) :
                    /\ original.id = site.id
                    /\ site.name \in DOMAIN NameToBody
                    /\ <<original.name, stepped[2]>> \in DOMAIN analysis.templates
                    /\ NameToBody[site.name].id =
                          analysis.templates[<<original.name, stepped[2]>>].body.id
                    /\ (stepped[2] = StartState <=> site.name = original.name)

\* C6: running escape again on the result of a successful escape succeeds
\* and changes nothing.
C6_SecondEscapeChangesNothing ==
    (mode = "escape" /\ runs >= 2) =>
        outcome = "ok" /\ NameToBody = NameToBodyBefore

AmbiguousUrl == <<"hole appears in an ambiguous URL context">>

\* C14: a hole stepped in a context whose url_part is URL_PART_UNKNOWN ends
\* in an error context, the step records the problem "hole appears in an
\* ambiguous URL context" and escape raises; a join of two branches that
\* end in the same url_part keeps that url_part, and a hole stepped inside
\* a URL whose part is known is accepted.
C14_AmbiguousUrlHole ==
    (mode = "escape" /\ runs = 1) =>
        /\ \A e \in analysis.reduced :
              (/\ e.node.kind = "interp" /\ ~is_error_context(e.start)
               /\ url_part_of(e.start) = "URL_PART_UNKNOWN") =>
                  /\ is_error_context(e.end)
                  /\ e.after.errors = Append(e.before.errors, AmbiguousUrl)
                  /\ outcome \in Raised
        /\ \A j \in analysis.joined :
              (/\ url_part_of(j.states[1]) = url_part_of(j.states[2])
               /\ ~is_error_context(j.out)) =>
                  url_part_of(j.out) = url_part_of(j.states[1])
        /\ \A s \in analysis.steps :
              (/\ s.node.kind = "interp"
               /\ url_part_of(s.start) \in {"URL_PART_PRE_QUERY",
                                            "URL_PART_QUERY_OR_FRAG"}) =>
                  ~is_error_context(s.end)

\* An escape call met a hole after joining a branch that ends in the query
\* with one that ends in the path of a URL, and raised.
C14_Witness ==
    /\ mode = "escape" /\ runs = 1
    /\ outcome = "EscapeError"
    /\ AmbiguousUrl \in Messages(analysis)
    /\ \E s \in analysis.steps, j \in analysis.joined :
          /\ s.node.kind = "interp"
          /\ url_part_of(s.start) = "URL_PART_UNKNOWN"
          /\ is_error_context(s.end)
          /\ j.out = s.start
          /\ url_part_of(j.states[1]) = "URL_PART_QUERY_OR_FRAG"
          /\ url_part_of(j.states[2]) = "URL_PART_PRE_QUERY"

\* An escape call met a hole after joining two branches that both end after
\* the "?" or "#" of a URL, and accepted the template set.
UrlBranchesAgree ==
    /\ mode = "escape" /\ runs = 1
    /\ outcome = "ok"
    /\ \E s \in analysis.steps, j \in analysis.joined :
          /\ s.node.kind = "interp"
          /\ state_of(s.start) = "STATE_URL"
          /\ j.out = s.start
          /\ url_part_of(j.states[1]) = "URL_PART_QUERY_OR_FRAG"
          /\ url_part_of(j.states[2]) = "URL_PART_QUERY_OR_FRAG"

\* TRUE iff text starts with a "/" that does not start a comment.
StartsWithSlash(text) ==
    /\ text # <<>> /\ text[1] = "/"
    /\ Len(text) >= 2 => text[2] \notin {"/", "*"}

\* TRUE iff every "/" of text closes a tag: it follows a "<".
SlashOnlyInEndTag(text) ==
    \A k \in DOMAIN text : text[k] = "/" => (k > 1 /\ text[k - 1] = "<")

TextStepsInJs(an) ==
    {s \in an.steps : s.node.kind = "text" /\ state_of(s.start) = "STATE_JS"}

JsCtxUnknownAccepted ==
    /\ mode = "escape" /\ runs = 1
    /\ outcome = "ok"
    /\ \E s \in TextStepsInJs(analysis), j \in analysis.joined :
          /\ js_ctx_of(s.start) = "JS_CTX_UNKNOWN"
          /\ j.out = s.start
          /\ js_ctx_of(j.states[1]) # js_ctx_of(j.states[2])
          /\ SlashOnlyInEndTag(s.node.text)

\* A "/" was stepped where a division can follow, and another where a
\* regular expression can.
SlashAfterDivOp ==
    /\ mode = "escape" /\ runs = 1
    /\ \E s \in TextStepsInJs(analysis) :
          StartsWithSlash(s.node.text) /\ js_ctx_of(s.start) = "JS_CTX_DIV_OP"

SlashAfterRegex ==
    /\ mode = "escape" /\ runs = 1
    /\ \E s \in TextStepsInJs(analysis) :
          StartsWithSlash(s.node.text) /\ js_ctx_of(s.start) = "JS_CTX_REGEX"

LoopSwitches(once_end, twice_end) ==
    <<"loop switches between states", context_to_string(once_end),
      context_to_string(twice_end)>>

\* The calls of reduce_traces on node that started in start_state with the
\* side tables before.
ReducedFrom(an, node, start_state, before) ==
    {e \in an.reduced :
        e.node = node /\ e.start = start_state /\ e.before = before}

\* What the claim says of the call e of a range node's reduce_traces, given
\* the end and the side tables after the pass for zero iterations.
RangeReduced(an, e, zero_end, zero_after) ==
    \E once \in ReducedFrom(an, e.node.body, e.start, zero_after) :
        \E twice \in ReducedFrom(an, e.node.body, once.end, once.after) :
            IF once.end # twice.end
            THEN /\ is_error_context(e.end)
                 /\ (~is_error_context(once.end) /\ ~is_error_context(twice.end))
                       => e.after.errors = Append(twice.after.errors,
                                                  LoopSwitches(once.end, twice.end))
            ELSE /\ e.end = context_union(zero_end, once.end)
                 /\ \E j \in an.joined :
                       /\ j.fn = "join" /\ j.states = <<zero_end, once.end>>
                       /\ j.out = e.end

\* C16: for every call of a range node's reduce_traces from a context s: if
\* the end of the body reduced from s differs from the end of the body
\* reduced again from that end, the call returns an error context and,
\* unless one of the two ends is an error context, records "loop switches
\* between states"; otherwise it returns the join of the end for zero
\* iterations with the end for one, where the end for zero iterations is
\* the end of the else clause reduced from s or, without else clause, s.
C16_RangeSteadyState ==
    (mode = "escape" /\ runs = 1) =>
        \A e \in analysis.reduced :
            e.node.kind = "range" =>
                IF e.node.else_clause.kind = "none"
                THEN RangeReduced(analysis, e, e.start, e.before)
                ELSE \E zero \in ReducedFrom(analysis, e.node.else_clause,
                                             e.start, e.before) :
                        RangeReduced(analysis, e, zero.end, zero.after)

\* A loop whose body ends in another context after the second pass than
\* after the first, neither of them an error context, was reduced to an
\* error context.
C16_Witness ==
    /\ mode = "escape" /\ runs = 1
    /\ \E e \in analysis.reduced, j \in analysis.joined :
          /\ e.node.kind = "range"
          /\ ~is_error_context(e.start) /\ is_error_context(e.end)
          /\ j.fn = "no_steady_state"
          /\ j.states[1] # j.states[2]
          /\ \A k \in DOMAIN j.states : ~is_error_context(j.states[k])
          /\ LoopSwitches(j.states[1], j.states[2]) \in Messages(analysis)

\* A loop with an else clause settled, and its end is the join of two
\* different contexts.
RangeJoinsElse ==
    /\ mode = "escape" /\ runs = 1
    /\ \E e \in analysis.reduced :
          /\ e.node.kind = "range" /\ e.node.else_clause.kind # "none"
          /\ ~is_error_context(e.end)
          /\ \E zero \in ReducedFrom(analysis, e.node.else_clause,
                                      e.start, e.before) :
                zero.end # e.end

CannotCompute(name_and_ctx) ==
    <<"cannot compute output context for template", name_and_ctx[1],
      context_to_string(name_and_ctx[2])>>

\* A pass confirms its assumption when it is accepted or ends in the
\* context it assumed.
Confirms(pass) == pass.ok \/ pass.end = pass.assumed

\* C17: escape returns or raises, also for templates that call themselves
\* or each other.  A call of a template in a context for which Templates
\* has an entry, as it has while that pair is analysed, returns the end
\* context of the entry and analyses nothing.  _compute_end_context makes
\* one or two passes, the first assuming the start context as the end, the
\* second assuming the end of the first; a pass that ends, without error, in
\* the context it assumed gives the result; and when neither pass confirms
\* its assumption the result is an error context and "cannot compute output
\* context for template" is recorded for the pair.
C17_RecursionTerminates ==
    (mode = "escape" /\ runs = 1) =>
        /\ outcome # "none"
        /\ \A e \in analysis.reduced :
              (/\ e.node.kind = "template" /\ ~is_error_context(e.start)
               /\ <<e.node.name, e.start>> \in DOMAIN e.before.templates) =>
                  /\ e.end = e.before.templates[<<e.node.name, e.start>>].end_context
                  /\ e.after.templates = e.before.templates
                  /\ e.after.errors = e.before.errors
                  /\ e.after.interps = e.before.interps
                  /\ e.after.text_values = e.before.text_values
        /\ \A c \in analysis.computed :
              /\ Len(c.passes) \in {1, 2}
              /\ c.passes[1].assumed = c.key[2]
              /\ Len(c.passes) = 1 => c.passes[1].ok
              /\ Len(c.passes) = 2 =>
                    ~c.passes[1].ok /\ c.passes[2].assumed = c.passes[1].end
              /\ \A k \in DOMAIN c.passes :
                    (/\ c.passes[k].end = c.passes[k].assumed
                     /\ ~is_error_context(c.passes[k].end)) =>
                        c.passes[k].ok
              /\ c.passes[Len(c.passes)].ok =>
                    c.out = c.passes[Len(c.passes)].end
              /\ (\A k \in DOMAIN c.passes : ~Confirms(c.passes[k])) =>
                    /\ is_error_context(c.out)
                    /\ \E k \in DOMAIN c.recorded :
                          c.recorded[k] = CannotCompute(c.key)

\* A template that calls itself was analysed twice: its end context was not
\* the start context the first pass assumed, nor the end of the first pass
\* that the second pass assumed, and escape raised.
C17_Witness ==
    /\ mode = "escape" /\ runs = 1
    /\ outcome = "EscapeError"
    /\ \E c \in analysis.computed, g \in analysis.guessed :
          /\ Len(c.passes) = 2
          /\ \A k \in DOMAIN c.passes : ~Confirms(c.passes[k])
          /\ g.key = c.key /\ g.key \in g.derived.called
          /\ CannotCompute(c.key) \in Messages(analysis)

\* Two templates that call each other were accepted.
MutualRecursionAccepted ==
    /\ mode = "escape" /\ runs = 1
    /\ outcome = "ok"
    /\ \E g \in analysis.guessed, e \in analysis.reduced :
          /\ g.ok /\ g.key[1] = <<"main">> /\ g.key \in g.derived.called
          /\ e.node.kind = "template" /\ e.node.name = <<"main">>
          /\ <<e.node.name, e.start>> \in DOMAIN e.before.templates
          /\ <<<<"h">>, e.start>> \in DOMAIN e.before.templates

\* A template that calls itself was accepted after a second pass.
SecondPassAccepted ==
    /\ mode = "escape" /\ runs = 1
    /\ \E c \in analysis.computed :
          Len(c.passes) = 2 /\ c.passes[2].ok /\ ~is_error_context(c.out)

\* C19: a call of reduce_traces that starts in an error context returns an
\* error context and leaves Templates, Called, TextValues, Interps, Calls
\* and Errors as they were; join and no_steady_state record a message only
\* when none of the states they are given is an error context.
C19_ErrorAddsNoMessage ==
    (mode = "escape" /\ runs = 1) =>
        /\ \A e \in analysis.reduced :
              is_error_context(e.start) =>
                  is_error_context(e.end) /\ e.after = e.before
        /\ \A j \in analysis.joined :
              j.recorded # <<>> =>
                  \A k \in DOMAIN j.states : ~is_error_context(j.states[k])

\* After an error was recorded, a loop that holds a hole and a text were
\* reduced from the error context, and a join was given an error context.
C19_Witness ==
    /\ mode = "escape" /\ runs = 1
    /\ analysis.errors # <<>>
    /\ \E e \in analysis.reduced :
          /\ is_error_context(e.start)
          /\ e.node.kind = "range" /\ e.node.body.kind = "interp"
          /\ e.before.errors # <<>>
    /\ \E e \in analysis.reduced :
          is_error_context(e.start) /\ e.node.kind = "text"
    /\ \E j \in analysis.joined :
          /\ is_error_context(j.out)
          /\ \E k \in DOMAIN j.states : is_error_context(j.states[k])
          /\ \E k \in DOMAIN j.states : ~is_error_context(j.states[k])

\* A template call was reduced from an error context.
CallFromError ==
    /\ mode = "escape" /\ runs = 1
    /\ \E e \in analysis.reduced :
          is_error_context(e.start) /\ e.node.kind = "template"

\* TRUE iff the tables templates0 and templates1 agree on every key but key.
SameBut(templates0, templates1, key) ==
    /\ DOMAIN templates0 \ {key} = DOMAIN templates1 \ {key}
    /\ \A other \in DOMAIN templates0 \ {key} :
          templates0[other] = templates1[other]

\* C20: a pass of _escape_template_body fails exactly when its end context
\* is an error context or the template was called while it was analysed and
\* the end differs from the assumed end; after a pass that failed, Called,
\* TextValues, Interps and Calls of the analyzer are what they were before
\* the pass, and Templates differs from what it was at most at the key of
\* the pass, whatever the derived analyzer memoized.
C20_FailedPassLeavesParent ==
    (mode = "escape" /\ runs = 1) =>
        \A g \in analysis.guessed :
            /\ ~g.ok <=> \/ is_error_context(g.end)
                         \/ (g.key \in g.derived.called /\ g.end # g.assumed)
            /\ ~g.ok =>
                  /\ g.after.called = g.before.called
                  /\ g.after.text_values = g.before.text_values
                  /\ g.after.interps = g.before.interps
                  /\ g.after.calls = g.before.calls
                  /\ SameBut(g.before.templates, g.after.templates, g.key)

\* A pass failed after its derived analyzer had memoized another template,
\* called templates and recorded a pipeline, in an analyzer whose tables
\* were not empty.
C20_Witness ==
    /\ mode = "escape" /\ runs = 1
    /\ \E g \in analysis.guessed :
          /\ ~g.ok
          /\ g.before.called # {}
          /\ DOMAIN g.before.templates # {}
          /\ g.derived.called # {}
          /\ DOMAIN g.derived.interps # {}
          /\ \E other \in DOMAIN g.derived.templates :
                other # g.key /\ other \notin DOMAIN g.before.templates

\* A pass failed although its end context is not an error context.
FailedForAssumption ==
    /\ mode = "escape" /\ runs = 1
    /\ \E g \in analysis.guessed :
          ~g.ok /\ ~is_error_context(g.end) /\ DOMAIN g.derived.interps # {}

\* The name rewrite gave to the body memoized for a template and a start
\* context.
GivenName(pair) ==
    IF pair[2] = analysis.start_state THEN pair[1]
    ELSE analysis.contextualized_names[pair]

\* The first name rewrite tries for a clone.
BaseName(pair) == pair[1] \o <<"$">> \o context_to_string(pair[2])

\* C27: after rewrite, a memoized pair whose context is start_state has kept
\* its name; every other pair has the name made of the template's name, "$"
\* and the context string, with a number after it exactly when that name was
\* taken; different pairs have different names; no generated name was a key
\* of name_to_body, and every template that is not the body of a pair is as
\* it was.
C27_ClonesGetFreshNames ==
    (mode = "escape" /\ outcome = "ok") =>
        LET pairs == DOMAIN analysis.templates
            names == analysis.contextualized_names
        IN  /\ DOMAIN names = {p \in pairs : p[2] # analysis.start_state}
            /\ \A p \in DOMAIN names :
                  /\ names[p] \notin DOMAIN NameToBodyBefore
                  /\ IF BaseName(p) \in DOMAIN NameToBodyBefore
                     THEN \E counter \in 0..9 :
                             names[p] = BaseName(p) \o <<ToString(counter)>>
                     ELSE names[p] = BaseName(p)
            /\ \A p \in pairs, q \in pairs :
                  p # q => GivenName(p) # GivenName(q)
            /\ DOMAIN NameToBody =
                  DOMAIN NameToBodyBefore \cup {GivenName(p) : p \in pairs}
            /\ \A n \in DOMAIN NameToBodyBefore :
                  (\A p \in pairs : GivenName(p) # n)
                      => NameToBody[n] = NameToBodyBefore[n]

\* The first name for the clone of h was an author's template: the clone
\* got a number after its name and the author's template is as it was.
C27_Witness ==
    /\ mode = "escape" /\ outcome = "ok"
    /\ TakenName \in DOMAIN NameToBodyBefore
    /\ \E p \in DOMAIN analysis.contextualized_names :
          /\ BaseName(p) = TakenName
          /\ analysis.contextualized_names[p] = TakenName \o <<"0">>
          /\ TakenName \o <<"0">> \in DOMAIN NameToBody
    /\ NameToBody[TakenName] = NameToBodyBefore[TakenName]

\* One template was cloned for two contexts.
ClonedTwice ==
    /\ mode = "escape" /\ outcome = "ok"
    /\ \E p \in DOMAIN analysis.contextualized_names,
          q \in DOMAIN analysis.contextualized_names :
          p[1] = q[1] /\ p[2] # q[2]

\* TRUE iff the two passes over the body of the range node of call e left
\* the same entries in the side tables, or started in the same context.
BothIterationsAgree(an, e, zero_after) ==
    \E once \in ReducedFrom(an, e.node.body, e.start, zero_after) :
        \E twice \in ReducedFrom(an, e.node.body, once.end, once.after) :
            e.start # once.end =>
                /\ twice.after.interps = once.after.interps
                /\ twice.after.calls = once.after.calls
                /\ twice.after.text_values = once.after.text_values

\* C28: in an accepted template set, when the body of a range node was
\* stepped from the loop's start context and again from the end of one
\* iteration, and the two contexts differ, the entries of interps, calls
\* and text_values after the second pass are those after the first: no
\* entry is kept that was chosen for only one of the contexts.
C28_EntriesValidForBothIterations ==
    (mode = "escape" /\ runs = 1 /\ outcome = "ok") =>
        \A e \in analysis.reduced :
            (e.node.kind = "range" /\ ~is_error_context(e.end)) =>
                IF e.node.else_clause.kind = "none"
                THEN BothIterationsAgree(analysis, e, e.before)
                ELSE \E zero \in ReducedFrom(analysis, e.node.else_clause,
                                             e.start, e.before) :
                        BothIterationsAgree(analysis, e, zero.after)

\* An accepted loop around a hole that starts the unquoted value of an href:
\* the hole was stepped before the value and inside it, and interps has the
\* modes chosen inside it.
SecondIterationOverwrites ==
    /\ mode = "escape" /\ runs = 1 /\ outcome = "ok"
    /\ \E e \in analysis.reduced :
          /\ e.node.kind = "range" /\ e.node.body.kind = "interp"
          /\ state_of(e.start) = "STATE_BEFORE_VALUE"
          /\ analysis.interps[e.node.body.id].esc_modes
                = esc_mode_for_hole(e.end).esc_modes
          /\ analysis.interps[e.node.body.id].esc_modes
                # esc_mode_for_hole(e.start).esc_modes

-----------------------------------------------------------------------------
(* Harness for the scanner: chunks of author text and holes, one after     *)
(* another, from STATE_TEXT                                                *)

MaxSteps == 3

Chunks ==
    { <<"<", "a", " ", "h", "r", "e", "f", "=", "\"">>,
      <<"<", "a", " ", "h", "r", "e", "f", "=", "'">>,
      <<"<", "a", " ", "h", "r", "e", "f", "=">>,
      <<"<", "p", " ", "s", "t", "y", "l", "e", "=", "\"">>,
      <<"<", "s", "t", "y", "l", "e", ">">>,
      <<"b", ":", "u", "r", "l", "(">>,
      <<"b", ":", "u", "r", "l", "(", "\"">>,
      <<"b", ":", "u", "r", "l", "(", "'">>,
      <<" ">>,
      <<" ", "\t", " ">>,
      <<" ", "x">>,
      <<"/", "p", "?", "q">>,
      <<"\"", ">">>,
      <<"<", "t", "i", "t", "l", "e", ">">>,
      <<"x", "\n">>,
      <<"<", "a", " ", "o", "n", "c", "l", "i", "c", "k", "=", "'">>,
      <<"\"", "\n", "'", ">">>,
      <<"\"", "\n">>,
      <<"/", "*">> }

InitScan ==
    /\ mode = "scan"
    /\ PipeIdle
    /\ EscIdle
    /\ ScanIdle
    /\ HoleIdle
    /\ FileIdle

\* The text branch of _Analyzer.step on a chunk of author text; a call
\* that raises leaves the context as it was.
ScanText ==
    /\ mode = "scan"
    /\ scan_steps < MaxSteps
    /\ ~is_error_context(scan_context)
    /\ \E chunk \in Chunks :
          LET Scanned(r) ==
                  /\ scan_context' = IF r.raised THEN scan_context ELSE r.context
                  /\ last_op' = Op("text", scan_context, chunk, <<>>)
                  /\ scan_result' = r
          IN  Scanned(process_raw_text(chunk, scan_context))
    /\ prev_op' = last_op
    /\ scan_steps' = scan_steps + 1
    /\ UNCHANGED <<mode, pipeVars, escVars, insVars, unionVars, holeVars,
                   fileVars>>

\* The interpolation branch of _Analyzer.step.
ScanHole ==
    /\ mode = "scan"
    /\ scan_steps < MaxSteps
    /\ ~is_error_context(scan_context)
    /\ LET Selected(hole) ==
               /\ scan_context' = hole.ctx
               /\ last_op' = Op("hole", scan_context, <<>>, hole.esc_modes)
       IN  Selected(esc_mode_for_hole(scan_context))
    /\ UNCHANGED scan_result
    /\ prev_op' = last_op
    /\ scan_steps' = scan_steps + 1
    /\ UNCHANGED <<mode, pipeVars, escVars, insVars, unionVars, holeVars,
                   fileVars>>

NextScan == ScanText \/ ScanHole

SpecScan == InitScan /\ [][NextScan]_vars

-----------------------------------------------------------------------------
(* Properties of the scanner and of holes in URLs *)

AtUrlStart(context) ==
    state_of(context) \in UrlStates /\ url_part_of(context) = "URL_PART_NONE"

IsBlank(text) == text # <<>> /\ \A k \in DOMAIN text : text[k] \in Spaces

\* TRUE iff suffix is what is left of text after some prefix.
IsSuffix(suffix, text) ==
    Len(suffix) <= Len(text) /\ Drop(text, Len(text) - Len(suffix)) = suffix

\* The two shapes of what process_raw_text returns.
ReturnedText(r) ==
    /\ ~is_error_context(r.context)
    /\ r.normalized # NoText /\ r.error_ctx = NoContext /\ r.error_text = NoText

ReturnedError(r, text) ==
    /\ is_error_context(r.context)
    /\ r.normalized = NoText /\ r.error_ctx # NoContext
    /\ r.error_text \notin {NoText, <<>>} /\ IsSuffix(r.error_text, text)

\* C13: process_raw_text returns, and what it returns is either a context
\* that is not an error with the normalized text, or an error context with
\* the context before the failing token and the non-empty suffix of the
\* input that was not processed.
C13_ScanReturnsOneOfTwoShapes ==
    (mode = "scan" /\ last_op.kind = "text") =>
        /\ ~scan_result.raised
        /\ ReturnedText(scan_result) \/ ReturnedError(scan_result, last_op.text)

\* The shapes alone, for the calls that return.
ShapesWhenReturned ==
    (mode = "scan" /\ last_op.kind = "text" /\ ~scan_result.raised) =>
        ReturnedText(scan_result) \/ ReturnedError(scan_result, last_op.text)

\* C18: when the context became an error context during a call of
\* process_raw_text, the context the call returns is an error context, also
\* when the end of the attribute value follows in the same chunk.
C18_ErrorIsKept ==
    (mode = "scan" /\ last_op.kind = "text" /\ ~scan_result.raised) =>
        (scan_result.overwritten => is_error_context(scan_result.context))

-----------------------------------------------------------------------------
(* Harness for ensure_pipeline_contains: any pipeline, any required list *)

MaxPipeLen == 3
MaxInsert == 2
MaxCalls == 2

FnNames == {"escape_html", "escape_html_attribute", "normalize_url",
            "noescape", "print"}

PipeBases == {_ReferenceNode("X"),
              _CallNode("f", <<_ReferenceNode("X"), _ReferenceNode("Y")>>)}

InitPipe ==
    /\ mode = "pipe"
    /\ \E base \in PipeBases, names \in SeqsUpTo(FnNames, MaxPipeLen) :
          pipeline0 = PipeOf(base, names)
    /\ pipeline = pipeline0
    /\ to_insert \in SeqsUpTo(FnNames, MaxInsert)
    /\ calls_made = 0
    /\ InsIdle
    /\ EscIdle
    /\ ScanIdle
    /\ HoleIdle
    /\ FileIdle

EnsurePipelineContains ==
    /\ mode = "pipe"
    /\ calls_made < MaxCalls
    /\ pipeline' = ensure_pipeline_contains(pipeline, to_insert)
    /\ calls_made' = calls_made + 1
    /\ UNCHANGED <<mode, pipeline0, to_insert, escVars, scanVars, insVars,
                   unionVars, holeVars, fileVars>>

NextPipe == EnsurePipelineContains

SpecPipe == InitPipe /\ [][NextPipe]_vars

-----------------------------------------------------------------------------
(* Properties of ensure_pipeline_contains *)

\* TRUE iff sub occurs in s, in order; names are compared by their canonical
\* names when canon is TRUE and literally otherwise.
RECURSIVE OccursInOrder(_, _, _)
OccursInOrder(sub, s, canon) ==
    IF sub = <<>> THEN TRUE
    ELSE IF s = <<>> THEN FALSE
    ELSE IF (IF canon THEN _esc_fns_eq(s[1], sub[1]) ELSE s[1] = sub[1])
    THEN OccursInOrder(Drop(sub, 1), Drop(s, 1), canon)
    ELSE OccursInOrder(sub, Drop(s, 1), canon)

\* The expression under the pipeline elements.
RECURSIVE PipeBase(_)
PipeBase(expr) == IF ~_is_pipe(expr) THEN expr ELSE PipeBase(expr.args[1])

HasName(names, n) == \E i \in 1..Len(names) : names[i] = n

\* The merge the documentation describes, on lists of names: required names
\* that precede a matched element go immediately to its left, unmatched ones
\* go to the end.
RECURSIVE DocumentedMerge(_, _)
DocumentedMerge(names, required) ==
    IF names = <<>> THEN required
    ELSE LET matches == {k \in 1..Len(required) : _esc_fns_eq(names[1], required[k])}
         IN  IF matches = {}
             THEN <<names[1]>> \o DocumentedMerge(Drop(names, 1), required)
             ELSE LET k == CHOOSE m \in matches : \A o \in matches : m <= o
                  IN  Take(required, k - 1) \o <<names[1]>>
                        \o DocumentedMerge(Drop(names, 1), Drop(required, k))

\* C7: a pipeline that already contains to_insert in order as a subsequence,
\* with other elements interleaved anywhere, is left unchanged by the call.
C7_StableWhenContained ==
    (calls_made = 1 /\ OccursInOrder(to_insert, PipeNames(pipeline0), FALSE))
        => pipeline = pipeline0

\* C8: a pipeline with an element named noescape at any position is left
\* unchanged by every call, whatever the required list.
C8_NoescapeIsNoOp ==
    (calls_made >= 1 /\ HasName(PipeNames(pipeline0), "noescape"))
        => pipeline = pipeline0

C8_Witness ==
    /\ calls_made = 1
    /\ Len(PipeNames(pipeline0)) >= 2
    /\ PipeNames(pipeline0)[1] # "noescape"
    /\ HasName(PipeNames(pipeline0), "noescape")
    /\ to_insert # <<>>
    /\ ~OccursInOrder(to_insert, PipeNames(pipeline0), TRUE)

\* C9: a second call with the same required list changes nothing: applying
\* ensure_pipeline_contains twice yields what applying it once yields.
C9_Idempotent ==
    [][calls_made >= 1 => pipeline' = pipeline]_vars

C9_Witness ==
    /\ calls_made = 2
    /\ pipeline # pipeline0
    /\ Len(PipeNames(pipeline)) > Len(PipeNames(pipeline0)) + 1

\* C10: after a call on a pipeline without noescape the required names occur
\* in order (canonical names compared), every pre-existing element is kept in
\* its relative order over the same base expression, required names preceding
\* a matched element sit immediately to its left and unmatched required names
\* are at the end.
C10_MergeResult ==
    (calls_made = 1 /\ ~HasName(PipeNames(pipeline0), "noescape"))
        => /\ OccursInOrder(to_insert, PipeNames(pipeline), TRUE)
           /\ OccursInOrder(PipeNames(pipeline0), PipeNames(pipeline), FALSE)
           /\ PipeBase(pipeline) = PipeBase(pipeline0)
           /\ PipeNames(pipeline) = DocumentedMerge(PipeNames(pipeline0), to_insert)

\* (.X | print | escape_html) asked for [normalize_url, escape_html_attribute]:
\* one name inserted to the left of the matched escape_html.
C10_Witness ==
    /\ calls_made = 1
    /\ PipeNames(pipeline0) = <<"print", "escape_html">>
    /\ to_insert = <<"normalize_url", "escape_html_attribute">>
    /\ PipeNames(pipeline) = <<"print", "normalize_url", "escape_html">>

-----------------------------------------------------------------------------
(* Harness for Pipeline.insert_element_at: any pipeline, any index up to   *)
(* one past its end and beyond, any name                                   *)

MaxIndex == MaxPipeLen + 1

InitInsert ==
    /\ mode = "insert"
    /\ \E base \in PipeBases, names \in SeqsUpTo(FnNames, MaxPipeLen) :
          pipeline0 = PipeOf(base, names)
    /\ pipeline = pipeline0
    /\ to_insert = <<>>
    /\ calls_made = 0
    /\ InsIdle
    /\ EscIdle
    /\ ScanIdle
    /\ HoleIdle
    /\ FileIdle

\* Pipeline(expr).insert_element_at(index, name), once.
InsertElementAt ==
    /\ mode = "insert"
    /\ InsertName = None
    /\ \E index \in 0..MaxIndex, name \in FnNames :
          /\ pipeline' = insert_element_at(pipeline, index, name)
          /\ InsertIndex' = index
          /\ InsertName' = name
    /\ UNCHANGED <<mode, pipeline0, to_insert, calls_made, escVars, scanVars,
                   unionVars, holeVars, fileVars>>

NextInsert == InsertElementAt

SpecInsert == InitInsert /\ [][NextInsert]_vars

-----------------------------------------------------------------------------
(* Properties of insert_element_at *)

\* C11: after insert_element_at(i, n), element_at(i) is n, the elements that
\* were below index i are where they were, and the elements that were at
\* index i and above are one index higher.
C11_InsertedAtIndex ==
    (mode = "insert" /\ InsertName # None) =>
        /\ element_at(pipeline, InsertIndex) = InsertName
        /\ \A j \in 0..(InsertIndex - 1) :
              element_at(pipeline, j) = element_at(pipeline0, j)
        /\ \A j \in InsertIndex..(walk_count(pipeline0) - 1) :
              element_at(pipeline, j + 1) = element_at(pipeline0, j)

\* The same for an index that is at most the length of the pipeline.
InsertedInRange ==
    (mode = "insert" /\ InsertName # None
     /\ InsertIndex <= walk_count(pipeline0)) =>
        /\ element_at(pipeline, InsertIndex) = InsertName
        /\ walk_count(pipeline) = walk_count(pipeline0) + 1
        /\ \A j \in 0..(InsertIndex - 1) :
              element_at(pipeline, j) = element_at(pipeline0, j)
        /\ \A j \in InsertIndex..(walk_count(pipeline0) - 1) :
              element_at(pipeline, j + 1) = element_at(pipeline0, j)

-----------------------------------------------------------------------------
(* Harness for context_union: pairs of contexts over the states that are   *)
(* nudged and the states they are nudged to                                *)

UnionContexts ==
    { Ctx(state, element, attr, delim, js_ctx, url_part) :
        state \in {"STATE_TEXT", "STATE_TAG_NAME", "STATE_TAG", "STATE_ATTR_NAME",
                   "STATE_AFTER_NAME", "STATE_BEFORE_VALUE", "STATE_JS",
                   "STATE_URL", "STATE_ERROR"},
        element \in {"ELEMENT_NONE", "ELEMENT_SCRIPT"},
        attr \in {"ATTR_NONE", "ATTR_URL"},
        delim \in {"DELIM_NONE", "DELIM_SPACE_OR_TAG_END"},
        js_ctx \in {"JS_CTX_NONE", "JS_CTX_DIV_OP", "JS_CTX_UNKNOWN"},
        url_part \in {"URL_PART_NONE", "URL_PART_PRE_QUERY", "URL_PART_UNKNOWN"} }

InitUnion ==
    /\ mode = "union"
    /\ UnionArgs \in UnionContexts \X UnionContexts
    /\ UnionResult = NoUnion
    /\ InsertIndex = 0 /\ InsertName = None
    /\ pipeline = None /\ pipeline0 = None
    /\ to_insert = <<>> /\ calls_made = 0
    /\ EscIdle
    /\ ScanIdle
    /\ HoleIdle
    /\ FileIdle

\* context_union on the pair, both ways round, and on each context with
\* itself.
ContextUnion ==
    /\ mode = "union"
    /\ ~UnionResult.done
    /\ UnionResult' =
          [done |-> TRUE,
           ab |-> context_union(UnionArgs[1], UnionArgs[2]),
           ba |-> context_union(UnionArgs[2], UnionArgs[1]),
           aa |-> context_union(UnionArgs[1], UnionArgs[1])]
    /\ UNCHANGED <<mode, UnionArgs, pipeVars, escVars, scanVars, InsertIndex,
                   InsertName, holeVars, fileVars>>

NextUnion == ContextUnion

SpecUnion == InitUnion /\ [][NextUnion]_vars

-----------------------------------------------------------------------------
(* Properties of context_union *)

\* C12: context_union(a, b) = context_union(b, a) and context_union(a, a) = a
\* for all contexts a and b.
C12_UnionCommutesAndIsIdempotent ==
    (mode = "union" /\ UnionResult.done) =>
        /\ UnionResult.ab = UnionResult.ba
        /\ UnionResult.aa = UnionArgs[1]

\* Two different contexts, one of them nudged, whose union differs from both
\* and is not the error context.
C12_Witness ==
    /\ mode = "union" /\ UnionResult.done
    /\ UnionArgs[1] # UnionArgs[2]
    /\ state_of(UnionArgs[1]) = "STATE_BEFORE_VALUE"
    /\ url_part_of(UnionArgs[2]) = "URL_PART_PRE_QUERY"
    /\ UnionResult.ab \notin {UnionArgs[1], UnionArgs[2], STATE_ERROR}
    /\ ~is_error_context(UnionResult.ab)

-----------------------------------------------------------------------------
(* Invariants of the contexts the scanner and holes produce *)

JsStates ==
    {"STATE_JS", "STATE_JSLINE_CMT", "STATE_JSBLOCK_CMT", "STATE_JSDQ_STR",
     "STATE_JSSQ_STR", "STATE_JSREGEXP"}

JsCodeStates == {"STATE_JS", "STATE_JSLINE_CMT", "STATE_JSBLOCK_CMT"}

CssUrlStates == {"STATE_CSS_URL", "STATE_CSSDQ_URL", "STATE_CSSSQ_URL"}

UrlPartInCssString ==
    /\ mode = "scan" /\ last_op.kind = "hole"
    /\ state_of(scan_context) \in CssStrStates
    /\ url_part_of(scan_context) = "URL_PART_PRE_QUERY"

-----------------------------------------------------------------------------
(* Harness for esc_mode_for_hole: one call on a context, over every state  *)
(* and every combination of the other fields that occurs                   *)

States ==
    {"STATE_TEXT", "STATE_RCDATA", "STATE_HTML_BEFORE_TAG_NAME",
     "STATE_TAG_NAME", "STATE_TAG", "STATE_ATTR_NAME", "STATE_AFTER_NAME",
     "STATE_BEFORE_VALUE", "STATE_HTMLCMT", "STATE_ATTR", "STATE_CSS",
     "STATE_CSSLINE_CMT", "STATE_CSSBLOCK_CMT", "STATE_CSSDQ_STR",
     "STATE_CSSSQ_STR", "STATE_CSS_URL", "STATE_CSSDQ_URL", "STATE_CSSSQ_URL",
     "STATE_JS", "STATE_JSLINE_CMT", "STATE_JSBLOCK_CMT", "STATE_JSDQ_STR",
     "STATE_JSSQ_STR", "STATE_JSREGEXP", "STATE_URL", "STATE_ERROR"}

\* The states inside the value of an attribute or the body of a script or
\* style element.
ValueStates ==
    {"STATE_ATTR", "STATE_URL", "STATE_CSS", "STATE_CSSLINE_CMT",
     "STATE_CSSBLOCK_CMT"} \cup CssStrStates \cup CssUrlStates \cup JsStates

\* The combinations of fields the scanner, holes and joins produce: an
\* attribute type only around the name of an attribute, a delimiter only
\* inside a value or where a value went wrong, a JS_CTX_* exactly in the JavaScript states outside
\* strings and regular expressions, and a URL_PART_* only in the URL states
\* and CSS strings.
WellFormed(context) ==
    /\ attr_type_of(context) # "ATTR_NONE"
          => state_of(context)
                \in {"STATE_ATTR_NAME", "STATE_AFTER_NAME", "STATE_BEFORE_VALUE"}
    /\ delim_type_of(context) # "DELIM_NONE"
          => state_of(context) \in ValueStates \cup {"STATE_ERROR"}
    /\ js_ctx_of(context) # "JS_CTX_NONE" <=> state_of(context) \in JsCodeStates
    /\ url_part_of(context) # "URL_PART_NONE"
          => state_of(context) \in UrlStates \cup CssStrStates

HoleContexts ==
    { context \in
        { Ctx(state, element, attr, delim, js_ctx, url_part) :
            state \in States,
            element \in {"ELEMENT_NONE", "ELEMENT_SCRIPT"},
            attr \in {"ATTR_NONE", "ATTR_SCRIPT", "ATTR_STYLE", "ATTR_URL"},
            delim \in {"DELIM_NONE", "DELIM_DOUBLE_QUOTE", "DELIM_SINGLE_QUOTE",
                       "DELIM_SPACE_OR_TAG_END"},
            js_ctx \in {"JS_CTX_NONE", "JS_CTX_REGEX", "JS_CTX_DIV_OP",
                        "JS_CTX_UNKNOWN"},
            url_part \in {"URL_PART_NONE", "URL_PART_PRE_QUERY",
                          "URL_PART_QUERY_OR_FRAG", "URL_PART_UNKNOWN"} } :
        WellFormed(context) }

InitHole ==
    /\ mode = "hole"
    /\ HoleContext \in HoleContexts
    /\ HoleResult = NoHole
    /\ PipeIdle
    /\ EscIdle
    /\ scan_context = STATE_TEXT /\ last_op = NoOp /\ prev_op = NoOp
    /\ scan_steps = 0 /\ scan_result = NoResult
    /\ FileIdle

\* esc_mode_for_hole on the context, with the context its first line forces
\* and the mode its second line looks up, and context_before_dynamic_value
\* on the same context.
EscModeForHole ==
    /\ mode = "hole"
    /\ ~HoleResult.done
    /\ LET Returned(forced, hole) ==
               HoleResult' =
                   [done |-> TRUE, forced |-> forced,
                    before_dynamic_value |->
                        context_before_dynamic_value(HoleContext),
                    looked_up |-> ESC_MODE_FOR_STATE(state_of(forced)),
                    ctx |-> hole.ctx, esc_modes |-> hole.esc_modes,
                    problem |-> hole.problem,
                    uncompressed |-> hole.uncompressed]
       IN  Returned(force_epsilon_transition(HoleContext),
                    esc_mode_for_hole(HoleContext))
    /\ UNCHANGED <<mode, HoleContext, pipeVars, escVars, scanVars, insVars,
                   unionVars, fileVars>>

NextHole == EscModeForHole

SpecHole == InitHole /\ [][NextHole]_vars

-----------------------------------------------------------------------------
(* Properties of esc_mode_for_hole *)

CommentStates ==
    {"STATE_HTMLCMT", "STATE_CSSLINE_CMT", "STATE_CSSBLOCK_CMT",
     "STATE_JSLINE_CMT", "STATE_JSBLOCK_CMT"}

\* C23: ESC_MODE_FOR_STATE has a mode for every state, and ESC_MODE_ELIDE
\* for each comment state.
C23_EscModeForStateIsTotal ==
    mode = "hole" =>
        /\ ESC_MODE_FOR_STATE(state_of(HoleContext)) # None
        /\ state_of(HoleContext) \in CommentStates
              => ESC_MODE_FOR_STATE(state_of(HoleContext)) = "ESC_MODE_ELIDE"

\* The states ESC_MODE_FOR_STATE has no mode for.
StatesWithoutEscMode ==
    {"STATE_AFTER_NAME", "STATE_BEFORE_VALUE", "STATE_ERROR"}

\* C23, as the table is: ESC_MODE_FOR_STATE has a mode for every state but
\* STATE_AFTER_NAME, STATE_BEFORE_VALUE and STATE_ERROR, and ESC_MODE_ELIDE
\* for each comment state; esc_mode_for_hole never looks up the first two,
\* and looks up STATE_ERROR only when it is called in the error context.
C23_EscModeForStateButThree ==
    mode = "hole" =>
        /\ ESC_MODE_FOR_STATE(state_of(HoleContext)) = None
              <=> state_of(HoleContext) \in StatesWithoutEscMode
        /\ state_of(HoleContext) \in CommentStates
              => ESC_MODE_FOR_STATE(state_of(HoleContext)) = "ESC_MODE_ELIDE"
        /\ HoleResult.done =>
              /\ state_of(HoleResult.forced)
                    \notin {"STATE_AFTER_NAME", "STATE_BEFORE_VALUE"}
              /\ HoleResult.looked_up = None
                    <=> is_error_context(HoleContext)
              /\ state_of(HoleContext) \in CommentStates
                    => HoleResult.looked_up = "ESC_MODE_ELIDE"

\* esc_mode_for_hole was called in a comment and looked up ESC_MODE_ELIDE.
C23_Witness ==
    /\ mode = "hole" /\ HoleResult.done
    /\ state_of(HoleContext) = "STATE_JSBLOCK_CMT"
    /\ HoleResult.looked_up = "ESC_MODE_ELIDE"
    /\ HoleResult.esc_modes = <<"ESC_MODE_ELIDE">>

\* esc_mode_for_hole was called before the value of an attribute, a state
\* the table has no mode for, and looked up the mode of the forced state.
LookedUpForcedState ==
    /\ mode = "hole" /\ HoleResult.done
    /\ state_of(HoleContext) = "STATE_BEFORE_VALUE"
    /\ ESC_MODE_FOR_STATE(state_of(HoleContext)) = None
    /\ HoleResult.looked_up # None

\* The list without the ESC_MODE_OPEN_QUOTE at its end, if it has one.
IgnoringOpenQuote(esc_modes) ==
    IF esc_modes # <<>> /\ esc_modes[Len(esc_modes)] = "ESC_MODE_OPEN_QUOTE"
    THEN Take(esc_modes, Len(esc_modes) - 1) ELSE esc_modes

\* TRUE iff the list ends in ESC_MODE_ESCAPE_HTML_ATTRIBUTE or in a mode
\* that makes it redundant.
EndsInAttributeEscaper(esc_modes) ==
    /\ esc_modes # <<>>
    /\ \/ esc_modes[Len(esc_modes)] = "ESC_MODE_ESCAPE_HTML_ATTRIBUTE"
       \/ <<esc_modes[Len(esc_modes)], "ESC_MODE_ESCAPE_HTML_ATTRIBUTE">>
              \in REDUNDANT_ESC_MODES

\* TRUE iff the hole starts an unquoted attribute value by an epsilon
\* transition.
StartsUnquotedValue ==
    /\ delim_type_of(HoleContext) = "DELIM_NONE"
    /\ delim_type_of(HoleResult.forced) = "DELIM_SPACE_OR_TAG_END"

\* ESC_MODE_OPEN_QUOTE is in the list exactly when the hole starts an
\* unquoted value, and then only as its last element.
OpenQuoteIffValueStarts ==
    /\ (\E k \in DOMAIN HoleResult.esc_modes :
            HoleResult.esc_modes[k] = "ESC_MODE_OPEN_QUOTE")
          <=> StartsUnquotedValue
    /\ \A k \in DOMAIN HoleResult.esc_modes :
          HoleResult.esc_modes[k] = "ESC_MODE_OPEN_QUOTE"
              => k = Len(HoleResult.esc_modes)

\* C24: for every context that is not the error context and whose forced
\* context has a delimiter, the list esc_mode_for_hole returns, ignoring an
\* ESC_MODE_OPEN_QUOTE at its end, ends in the attribute escaper or in a
\* mode that makes it redundant; ESC_MODE_OPEN_QUOTE is in the list exactly
\* when the input has no delimiter and the forced context has
\* DELIM_SPACE_OR_TAG_END, and then it is the last element.
C24_AttributeEscaperAndOpenQuote ==
    (mode = "hole" /\ HoleResult.done /\ ~is_error_context(HoleContext)
     /\ delim_type_of(HoleResult.forced) # "DELIM_NONE") =>
        /\ EndsInAttributeEscaper(IgnoringOpenQuote(HoleResult.esc_modes))
        /\ OpenQuoteIffValueStarts

\* C24, for the holes esc_mode_for_hole accepts: the same, when it reports
\* no problem. When the URL part is unknown the context it goes on with is
\* the error context, which has no delimiter, and nothing is appended.
C24_AttributeEscaperWhenAccepted ==
    (mode = "hole" /\ HoleResult.done /\ ~is_error_context(HoleContext)
     /\ delim_type_of(HoleResult.forced) # "DELIM_NONE") =>
        /\ HoleResult.problem = None
              => EndsInAttributeEscaper(IgnoringOpenQuote(HoleResult.esc_modes))
        /\ HoleResult.problem # None
              => /\ url_part_of(HoleResult.forced) = "URL_PART_UNKNOWN"
                 /\ is_error_context(HoleResult.ctx)
                 /\ HoleResult.esc_modes = <<HoleResult.looked_up>>
        /\ OpenQuoteIffValueStarts

\* A hole before the value of an href: the attribute escaper was appended,
\* and the quote after it.
C24_Witness ==
    /\ mode = "hole" /\ HoleResult.done
    /\ state_of(HoleContext) = "STATE_BEFORE_VALUE"
    /\ attr_type_of(HoleContext) = "ATTR_URL"
    /\ delim_type_of(HoleContext) = "DELIM_NONE"
    /\ HoleResult.esc_modes =
          <<"ESC_MODE_FILTER_URL", "ESC_MODE_NORMALIZE_URL",
            "ESC_MODE_ESCAPE_HTML_ATTRIBUTE", "ESC_MODE_OPEN_QUOTE">>

\* A hole in a quoted CSS string: the attribute escaper was appended and
\* then removed as redundant after ESC_MODE_ESCAPE_CSS_STRING.
AttributeEscaperRedundant ==
    /\ mode = "hole" /\ HoleResult.done
    /\ state_of(HoleContext) = "STATE_CSSDQ_STR"
    /\ delim_type_of(HoleContext) = "DELIM_SINGLE_QUOTE"
    /\ HoleResult.esc_modes = <<"ESC_MODE_FILTER_URL", "ESC_MODE_ESCAPE_CSS_STRING">>

\* The elements of esc_modes at the indices in kept, in order, from index i.
RECURSIVE KeptModes(_, _, _)
KeptModes(esc_modes, kept, i) ==
    IF i > Len(esc_modes) THEN <<>>
    ELSE (IF i \in kept THEN <<esc_modes[i]>> ELSE <<>>)
             \o KeptModes(esc_modes, kept, i + 1)

\* The nearest index to the left of i that is kept.
LeftNeighbour(kept, i) == CHOOSE k \in kept : k < i /\ \A j \in kept : j < i => j <= k

\* TRUE iff compressed is esc_modes without exactly the modes that are the
\* second of a redundant pair with the nearest mode kept to their left: the
\* first mode is kept, the order is kept, and no other mode is removed.
RemovesOnlyRedundant(esc_modes, compressed) ==
    \E kept \in SUBSET (1..Len(esc_modes)) :
        /\ 1 \in kept
        /\ \A i \in 2..Len(esc_modes) :
              i \notin kept <=>
                  <<esc_modes[LeftNeighbour(kept, i)], esc_modes[i]>>
                      \in REDUNDANT_ESC_MODES
        /\ compressed = KeptModes(esc_modes, kept, 1)

\* C25: the list esc_mode_for_hole returns has no two adjacent modes that
\* are a redundant pair, and it is the list before compression without
\* exactly the second modes of redundant pairs: the first mode of a pair, the
\* order, and every mode that is not redundant after its left neighbour stay.
C25_CompressionRemovesSecondOfPair ==
    (mode = "hole" /\ HoleResult.done) =>
        /\ \A k \in 1..(Len(HoleResult.esc_modes) - 1) :
              <<HoleResult.esc_modes[k], HoleResult.esc_modes[k + 1]>>
                  \notin REDUNDANT_ESC_MODES
        /\ RemovesOnlyRedundant(HoleResult.uncompressed, HoleResult.esc_modes)

\* The attribute escaper was removed after ESC_MODE_ESCAPE_JS_STRING, and
\* the mode before the pair stayed.
C25_Witness ==
    /\ mode = "hole" /\ HoleResult.done
    /\ HoleResult.uncompressed =
          <<"ESC_MODE_ESCAPE_JS_STRING", "ESC_MODE_ESCAPE_HTML_ATTRIBUTE">>
    /\ HoleResult.esc_modes = <<"ESC_MODE_ESCAPE_JS_STRING">>

\* A list of four modes with no redundant pair was returned as it was.
NothingToCompress ==
    /\ mode = "hole" /\ HoleResult.done
    /\ Len(HoleResult.uncompressed) = 4
    /\ HoleResult.esc_modes = HoleResult.uncompressed

\* The epsilon transition the claim describes, for a context c.
EpsilonTransitionOf(c, r) ==
    IF state_of(c) \in {"STATE_TAG", "STATE_TAG_NAME", "STATE_AFTER_NAME"}
    THEN state_of(r) = "STATE_ATTR_NAME" /\ attr_type_of(r) = "ATTR_NONE"
    ELSE IF state_of(c) = "STATE_BEFORE_VALUE"
    THEN r = context_after_attr_delimiter(
                 element_type_of(c), attr_type_of(c), "DELIM_SPACE_OR_TAG_END")
    ELSE r = c

BeforeDynamicValueInTag ==
    (mode = "hole" /\ HoleResult.done
        /\ state_of(HoleContext) \in {"STATE_TAG", "STATE_TAG_NAME"}) =>
        HoleResult.before_dynamic_value =
            [HoleContext EXCEPT !.state = "STATE_ATTR_NAME"]

AfterNameDropsAttr ==
    /\ mode = "hole" /\ HoleResult.done
    /\ state_of(HoleContext) = "STATE_AFTER_NAME"
    /\ attr_type_of(HoleContext) = "ATTR_URL"
    /\ attr_type_of(HoleResult.before_dynamic_value) = "ATTR_NONE"

\* In the contexts the scanner reaches, STATE_TAG and STATE_TAG_NAME have no
\* attribute type.
TagHasNoAttrType ==
    (mode = "scan" /\ state_of(scan_context) \in {"STATE_TAG", "STATE_TAG_NAME"})
        => attr_type_of(scan_context) = "ATTR_NONE"

\* Every context the scanner and holes reach has a combination of fields
\* that WellFormed allows.
ScannedContextsAreWellFormed == mode = "scan" => WellFormed(scan_context)

\* So has every context the analyzer stepped from or to, joined, or got
\* from a join.
AnalysedContextsAreWellFormed ==
    (mode = "escape" /\ outcome # "none") =>
        /\ \A e \in analysis.steps : WellFormed(e.start) /\ WellFormed(e.end)
        /\ \A j \in analysis.joined :
              /\ WellFormed(j.out)
              /\ \A k \in DOMAIN j.states : WellFormed(j.states[k])

-----------------------------------------------------------------------------
(* Harness for joins of three branches: context_union on triples of        *)
(* contexts, folded from the left as _Analyzer.join does and nested the    *)
(* other way                                                                *)

AssocContexts ==
    { context \in HoleContexts :
        /\ state_of(context) \in
              {"STATE_TEXT", "STATE_TAG_NAME", "STATE_TAG", "STATE_ATTR_NAME",
               "STATE_AFTER_NAME", "STATE_BEFORE_VALUE", "STATE_ATTR",
               "STATE_JS", "STATE_URL", "STATE_ERROR"}
        /\ attr_type_of(context) # "ATTR_STYLE"
        /\ delim_type_of(context) \in {"DELIM_NONE", "DELIM_SPACE_OR_TAG_END"} }

InitAssoc ==
    /\ mode = "assoc"
    /\ UnionArgs \in AssocContexts \X AssocContexts \X AssocContexts
    /\ UnionResult = NoUnion
    /\ InsertIndex = 0 /\ InsertName = None
    /\ pipeline = None /\ pipeline0 = None
    /\ to_insert = <<>> /\ calls_made = 0
    /\ EscIdle
    /\ ScanIdle
    /\ HoleIdle
    /\ FileIdle

\* The fold of join over three branch ends, and the same three joined with
\* the last two first.
JoinThree ==
    /\ mode = "assoc"
    /\ ~UnionResult.done
    /\ LET Joined(ab, bc) ==
               UnionResult' =
                   [done |-> TRUE, ab |-> ab, bc |-> bc,
                    ab_c |-> context_union(ab, UnionArgs[3]),
                    a_bc |-> context_union(UnionArgs[1], bc)]
       IN  Joined(context_union(UnionArgs[1], UnionArgs[2]),
                  context_union(UnionArgs[2], UnionArgs[3]))
    /\ UNCHANGED <<mode, UnionArgs, pipeVars, escVars, scanVars, InsertIndex,
                   InsertName, holeVars, fileVars>>

NextAssoc == JoinThree

SpecAssoc == InitAssoc /\ [][NextAssoc]_vars

-----------------------------------------------------------------------------
(* Properties of joins of three branches *)

JoinedContextsAreWellFormed ==
    (mode = "assoc" /\ UnionResult.done) =>
        /\ WellFormed(UnionResult.ab) /\ WellFormed(UnionResult.bc)
        /\ WellFormed(UnionResult.ab_c) /\ WellFormed(UnionResult.a_bc)

-----------------------------------------------------------------------------
(* file.py: File, a stream that escapes the values written to it           *)

\* The for loop of File.write: the hole step for each value, the value
\* sanitized and passed to the underlying stream, or an exception at the
\* first value that has a problem or an escape mode without a sanitizer.
RECURSIVE WriteVals(_, _, _)
WriteVals(vals, ctx, written) ==
    IF vals = <<>>
    THEN [ctx |-> ctx, written |-> written, raised |-> FALSE]
    ELSE LET Sanitizers(esc_modes) ==
                 [k \in DOMAIN esc_modes |-> SANITIZER_FOR_ESC_MODE(esc_modes[k])]
             Selected(hole) ==
                 IF hole.problem # None
                    \/ \E k \in DOMAIN hole.esc_modes :
                          SANITIZER_FOR_ESC_MODE(hole.esc_modes[k]) = None
                 THEN [ctx |-> ctx, written |-> written, raised |-> TRUE]
                 ELSE WriteVals(Tail(vals), hole.ctx,
                                Append(written,
                                       [kind |-> "value", text |-> Head(vals),
                                        sanitizers |-> Sanitizers(hole.esc_modes)]))
         IN  Selected(esc_mode_for_hole(ctx))

\* The for loop of File.write_safe: the scanner over each chunk, the chunk
\* passed to the underlying stream, or an exception at the first chunk the
\* scanner fails on or ends in an error context after.
RECURSIVE WriteSafeStrs(_, _, _)
WriteSafeStrs(safe_strs, ctx, written) ==
    IF safe_strs = <<>>
    THEN [ctx |-> ctx, written |-> written, raised |-> FALSE]
    ELSE LET Scanned(r) ==
                 IF r.raised \/ is_error_context(r.context)
                 THEN [ctx |-> ctx, written |-> written, raised |-> TRUE]
                 ELSE WriteSafeStrs(Tail(safe_strs), r.context,
                                    Append(written,
                                           [kind |-> "safe",
                                            text |-> Head(safe_strs),
                                            sanitizers |-> <<>>]))
         IN  Scanned(process_raw_text(Head(safe_strs), ctx))

-----------------------------------------------------------------------------
(* Harness for File: a File on an empty stream, and calls of write and     *)
(* write_safe with up to two arguments                                     *)

MaxFileCalls == 2

FileStartContexts ==
    { STATE_TEXT,
      [StateCtx("STATE_URL") EXCEPT !.delim = "DELIM_DOUBLE_QUOTE",
                                    !.url_part = "URL_PART_UNKNOWN"] }

FileChunks ==
    { <<"<", "a", " ", "h", "r", "e", "f", "=", "\"">>,
      <<"<", "a", " ", "h", "r", "e", "f", "=">>,
      <<"/", "p", "?", "q">>,
      <<"\"", ">">>,
      <<"\"", "\n", "'", ">">>,
      <<"\"", "\n">> }

FileValues == { <<"x">> }

ArgLists(args) ==
    {<<>>} \cup { <<a>> : a \in args } \cup { <<a, b>> : a \in args, b \in args }

InitFile ==
    /\ mode = "file"
    /\ start_context \in FileStartContexts
    /\ ctx_ = start_context
    /\ underlying_ = <<>>
    /\ file_calls = <<>>
    /\ file_raised = FALSE
    /\ PipeIdle
    /\ EscIdle
    /\ ScanIdle
    /\ HoleIdle
    /\ InsertIndex = 0 /\ InsertName = None
    /\ UnionArgs = <<STATE_TEXT, STATE_TEXT>> /\ UnionResult = NoUnion

\* File.write(*vals); self.ctx_ is assigned after the loop, so not when the
\* loop raises.
Write ==
    /\ mode = "file"
    /\ Len(file_calls) < MaxFileCalls
    /\ \E vals \in ArgLists(FileValues) :
          LET Written(r) ==
                  /\ underlying_' = underlying_ \o r.written
                  /\ ctx_' = IF r.raised THEN ctx_ ELSE r.ctx
                  /\ file_raised' = r.raised
                  /\ file_calls' =
                        Append(file_calls,
                               [method |-> "write", args |-> vals,
                                raised |-> r.raised])
          IN  Written(WriteVals(vals, force_epsilon_transition(ctx_), <<>>))
    /\ UNCHANGED <<mode, start_context, pipeVars, escVars, scanVars, insVars,
                   unionVars, holeVars>>

\* File.write_safe(*safe_strs); self.ctx_ is assigned after the loop too.
WriteSafe ==
    /\ mode = "file"
    /\ Len(file_calls) < MaxFileCalls
    /\ \E safe_strs \in ArgLists(FileChunks) :
          LET Written(r) ==
                  /\ underlying_' = underlying_ \o r.written
                  /\ ctx_' = IF r.raised THEN ctx_ ELSE r.ctx
                  /\ file_raised' = r.raised
                  /\ file_calls' =
                        Append(file_calls,
                               [method |-> "write_safe", args |-> safe_strs,
                                raised |-> r.raised])
          IN  Written(WriteSafeStrs(safe_strs, ctx_, <<>>))
    /\ UNCHANGED <<mode, start_context, pipeVars, escVars, scanVars, insVars,
                   unionVars, holeVars>>

NextFile == Write \/ WriteSafe

SpecFile == InitFile /\ [][NextFile]_vars

-----------------------------------------------------------------------------
(* Properties of File *)

\* The context after the chunks of a stream: the scanner step for each safe
\* chunk and the hole step for each escaped value, in order.
RECURSIVE Propagate(_, _)
Propagate(ctx, chunks) ==
    IF chunks = <<>> THEN ctx
    ELSE LET After(next) == Propagate(next, Tail(chunks))
         IN  After(IF Head(chunks).kind = "safe"
                   THEN process_raw_text(Head(chunks).text, ctx).context
                   ELSE esc_mode_for_hole(ctx).ctx)

\* C30: after any sequence of File.write and File.write_safe calls, calls
\* that raise included, the context the File has stored is the context after
\* the chunks that were passed to the underlying stream, starting from the
\* File's start context.
C30_StoredContextFollowsStream ==
    mode = "file" => ctx_ = Propagate(start_context, underlying_)

\* It is when no call has raised after writing and write was not called
\* without values in the middle of a tag.
StoredContextFollowsStreamUnlessRaised ==
    (mode = "file"
     /\ \A k \in DOMAIN file_calls :
           /\ ~file_calls[k].raised
           /\ file_calls[k].args # <<>>) =>
        ctx_ = Propagate(start_context, underlying_)

\* write_safe wrote the start of a link and raised on its second chunk: the
\* stream is inside the URL and the File is still in STATE_TEXT.
RaisedAfterWriting ==
    /\ mode = "file" /\ file_raised
    /\ Len(file_calls) = 1
    /\ file_calls[1].method = "write_safe" /\ Len(file_calls[1].args) = 2
    /\ Len(underlying_) = 1
    /\ ctx_ = STATE_TEXT
    /\ state_of(Propagate(start_context, underlying_)) = "STATE_URL"

\* write raised on its first value, in an ambiguous part of a URL, and
\* nothing was written.
WriteRaised ==
    /\ mode = "file" /\ file_raised
    /\ file_calls[Len(file_calls)].method = "write"
    /\ underlying_ = <<>>

====
